---- MODULE Spec2Model ----
(***************************************************************************)
(* Model of the hipBLAS client test harness: the execution drivers         *)
(* (testing_hemv, testing_geam, testing_syrk_strided_batched,              *)
(* testing_syr2k_strided_batched), their bad-argument suites, and the      *)
(* host-side matrix initializers.                                          *)
(***************************************************************************)
EXTENDS Integers, Sequences, FiniteSets, TLC

\* ------------------------------------------------------------------------
\* Bounds of the model
\* ------------------------------------------------------------------------
MaxDim == 2
MaxLd == 2
MaxInc == 1
MaxBatch == 2
MaxIters == 2
MaxFillN == 2
MaxFillBatch == 2
MaxSeed == 1
MaxTriN == 2
MaxTriBatch == 2
MaxBandN == 3
MaxBandK == 2
MaxPackN == 4

VARIABLES
    routine,        \* which driver / suite runs
    arg,            \* the Arguments record of the case
    pc,             \* position of the driver
    calls,          \* invocations of the routine under test, in order
    trace,          \* names of the steps taken, in order
    alloc,          \* size of every allocated operand buffer (-1: not allocated)
    hbuf,           \* contents of the host buffers
    dbuf,           \* contents of the device buffers
    pointer_mode,   \* pointer mode of the handle
    rng,            \* state of the process-wide generator (draws since the seed)
    iter,           \* loop counter of the timing loop
    dispatches,     \* routine dispatches made by the timing loop
    t_start,        \* dispatch counts at which the start timestamp was taken
    t_end,          \* dispatch counts at which the end timestamp was taken
    errs,           \* hipblas_error_host / hipblas_error_device
    failed,         \* a gtest expectation of the case has failed
    logged,         \* performance records emitted
    ba,             \* state of the bad-argument suite
    fill            \* state of the initializer under test

drvVars == <<routine, arg, pc, calls, trace, alloc, hbuf, dbuf, pointer_mode, rng,
             iter, dispatches, t_start, t_end, errs, failed, logged>>
vars == <<routine, arg, pc, calls, trace, alloc, hbuf, dbuf, pointer_mode, rng,
          iter, dispatches, t_start, t_end, errs, failed, logged, ba, fill>>

\* ------------------------------------------------------------------------
\* Values
\* ------------------------------------------------------------------------
Routines == {"hemv", "geam", "syrk_strided_batched", "syr2k_strided_batched"}
Strided == {"syrk_strided_batched", "syr2k_strided_batched"}

SUCCESS == "HIPBLAS_STATUS_SUCCESS"
NOT_INITIALIZED == "HIPBLAS_STATUS_NOT_INITIALIZED"
INVALID_VALUE == "HIPBLAS_STATUS_INVALID_VALUE"
INVALID_ENUM == "HIPBLAS_STATUS_INVALID_ENUM"

HOST == "HIPBLAS_POINTER_MODE_HOST"
DEVICE == "HIPBLAS_POINTER_MODE_DEVICE"

FillModes == {"HIPBLAS_FILL_MODE_UPPER", "HIPBLAS_FILL_MODE_LOWER", "HIPBLAS_FILL_MODE_FULL"}
Operations == {"HIPBLAS_OP_N", "HIPBLAS_OP_T", "HIPBLAS_OP_C"}

char2hipblas_fill(c) == IF c = "U" THEN "HIPBLAS_FILL_MODE_UPPER" ELSE "HIPBLAS_FILL_MODE_LOWER"
char2hipblas_operation(c) ==
    IF c = "N" THEN "HIPBLAS_OP_N" ELSE IF c = "T" THEN "HIPBLAS_OP_T" ELSE "HIPBLAS_OP_C"

Abs(x) == IF x >= 0 THEN x ELSE -x

\* Contents of a buffer: the generator position its data was drawn from, how many
\* times the routine (or the reference routine) has been applied to it, and whether
\* one of those applications was a wrong backend result.
NoData == [seed |-> -1, runs |-> 0, bad |-> FALSE]
Data(s) == [seed |-> s, runs |-> 0, bad |-> FALSE]
Scalar == [seed |-> -2, runs |-> 0, bad |-> FALSE]

HostBufs == {"hA", "hB", "hx", "hy", "hy_cpu", "hy_host", "hy_device",
             "hC1", "hC2", "hC_copy", "hC_host", "hC_device", "hC_gold"}
DevBufs == {"dA", "dB", "dx", "dy", "dC", "d_alpha", "d_beta"}
AllBufs == HostBufs \cup DevBufs

\* ------------------------------------------------------------------------
\* Argument tuples of the routines under test
\* ------------------------------------------------------------------------
hemvArgs(handle, uplo, N, alpha, A, lda, x, incx, beta, y, incy) ==
    [handle |-> handle, uplo |-> uplo, N |-> N, alpha |-> alpha, A |-> A, lda |-> lda,
     x |-> x, incx |-> incx, beta |-> beta, y |-> y, incy |-> incy]

geamArgs(handle, transA, transB, M, N, alpha, A, lda, beta, B, ldb, C, ldc) ==
    [handle |-> handle, transA |-> transA, transB |-> transB, M |-> M, N |-> N,
     alpha |-> alpha, A |-> A, lda |-> lda, beta |-> beta, B |-> B, ldb |-> ldb,
     C |-> C, ldc |-> ldc]

syrkArgs(handle, uplo, transA, N, K, alpha, A, lda, strideA, beta, C, ldc, strideC, batch_count) ==
    [handle |-> handle, uplo |-> uplo, transA |-> transA, N |-> N, K |-> K,
     alpha |-> alpha, A |-> A, lda |-> lda, strideA |-> strideA, beta |-> beta,
     C |-> C, ldc |-> ldc, strideC |-> strideC, batch_count |-> batch_count]

syr2kArgs(handle, uplo, transA, N, K, alpha, A, lda, strideA, B, ldb, strideB, beta, C, ldc, strideC, batch_count) ==
    [handle |-> handle, uplo |-> uplo, transA |-> transA, N |-> N, K |-> K,
     alpha |-> alpha, A |-> A, lda |-> lda, strideA |-> strideA, B |-> B, ldb |-> ldb,
     strideB |-> strideB, beta |-> beta, C |-> C, ldc |-> ldc, strideC |-> strideC,
     batch_count |-> batch_count]

\* One invocation: the argument tuple, the status the harness asserts, the handle's
\* pointer mode at the call, and the contents of the output operand at entry.
Invocation(args, expect, mode, cin) ==
    [args |-> args, expect |-> expect, mode |-> mode, cin |-> cin]

ScalarPtrs(r) == {"alpha", "beta"}
DataPtrs(r) ==
    CASE r = "hemv" -> {"A", "x", "y"}
      [] r = "geam" -> {"A", "B", "C"}
      [] r = "syrk_strided_batched" -> {"A", "C"}
      [] r = "syr2k_strided_batched" -> {"A", "B", "C"}

\* ------------------------------------------------------------------------
\* Drivers: resolved shapes and the quick-return guards
\* ------------------------------------------------------------------------
hemv_sizes(a) ==
    [A_size |-> a.lda * a.N, X_size |-> Abs(a.incx) * a.N, Y_size |-> Abs(a.incy) * a.N]

geam_shape(a) ==
    LET tA == char2hipblas_operation(a.transA)
        tB == char2hipblas_operation(a.transB)
        A_row == IF tA = "HIPBLAS_OP_N" THEN a.M ELSE a.N
        A_col == IF tA = "HIPBLAS_OP_N" THEN a.N ELSE a.M
        B_row == IF tB = "HIPBLAS_OP_N" THEN a.M ELSE a.N
        B_col == IF tB = "HIPBLAS_OP_N" THEN a.N ELSE a.M
    IN  [A_row |-> A_row, A_col |-> A_col, B_row |-> B_row, B_col |-> B_col,
         A_size |-> a.lda * A_col, B_size |-> a.ldb * B_col, C_size |-> a.ldc * a.N]

syrk_shape(a) ==
    LET K1 == IF char2hipblas_operation(a.transA) = "HIPBLAS_OP_N" THEN a.K ELSE a.N
        stride_A == a.lda * K1 * a.stride_scale
        stride_C == a.ldc * a.N * a.stride_scale
    IN  [K1 |-> K1, stride_A |-> stride_A, stride_C |-> stride_C,
         A_size |-> stride_A * a.batch_count, C_size |-> stride_C * a.batch_count]

syr2k_shape(a) ==
    LET K1 == IF char2hipblas_operation(a.transA) = "HIPBLAS_OP_N" THEN a.K ELSE a.N
        stride_A == a.lda * K1 * a.stride_scale
        stride_B == a.ldb * K1 * a.stride_scale
        stride_C == a.ldc * a.N * a.stride_scale
    IN  [K1 |-> K1, stride_A |-> stride_A, stride_B |-> stride_B, stride_C |-> stride_C,
         A_size |-> stride_A * a.batch_count, B_size |-> stride_B * a.batch_count,
         C_size |-> stride_C * a.batch_count]

hemv_invalid_size_nold1(a) ==
    a.N < 0 \/ a.lda < a.N \/ a.incx = 0 \/ a.incy = 0

hemv_invalid_size(a) ==
    a.N < 0 \/ a.lda < a.N \/ a.lda < 1 \/ a.incx = 0 \/ a.incy = 0

geam_invalid_size(a) ==
    LET s == geam_shape(a)
    IN  a.M < 0 \/ a.N < 0 \/ a.lda < s.A_row \/ a.ldb < s.B_row \/ a.ldc < a.M

syrk_invalid_size_noK(a) ==
    LET tA == char2hipblas_operation(a.transA)
    IN  a.N < 0 \/ a.ldc < a.N
        \/ (tA = "HIPBLAS_OP_N" /\ a.lda < a.N)
        \/ (tA # "HIPBLAS_OP_N" /\ a.lda < a.K)
        \/ a.batch_count < 0

syrk_invalid_size(a) ==
    LET tA == char2hipblas_operation(a.transA)
    IN  a.N < 0 \/ a.K < 0 \/ a.ldc < a.N
        \/ (tA = "HIPBLAS_OP_N" /\ a.lda < a.N)
        \/ (tA # "HIPBLAS_OP_N" /\ a.lda < a.K)
        \/ a.batch_count < 0

syr2k_invalid_size(a) ==
    LET tA == char2hipblas_operation(a.transA)
    IN  (a.N < 0 \/ a.K < 0 \/ a.ldc < a.N
         \/ (tA = "HIPBLAS_OP_N" /\ (a.lda < a.N \/ a.ldb < a.N))
         \/ (tA # "HIPBLAS_OP_N" /\ (a.lda < a.K \/ a.ldb < a.K)))
        \/ a.batch_count < 0

invalid_size(r, a) ==
    CASE r = "hemv" -> hemv_invalid_size(a)
      [] r = "geam" -> geam_invalid_size(a)
      [] r = "syrk_strided_batched" -> syrk_invalid_size(a)
      [] r = "syr2k_strided_batched" -> syr2k_invalid_size(a)

\* The guard `if(invalid_size || !N ...)` of each driver.
quick_return(r, a) ==
    CASE r = "hemv" -> invalid_size(r, a) \/ a.N = 0
      [] r = "geam" -> invalid_size(r, a) \/ a.N = 0 \/ a.M = 0
      [] r \in Strided -> invalid_size(r, a) \/ a.N = 0 \/ a.batch_count = 0

\* The argument tuple of a driver's invocation, given the scalar and data pointers.
DriverArgs(r, a, alpha, beta, A, B, X, C) ==
    CASE r = "hemv" ->
            hemvArgs("handle", char2hipblas_fill(a.uplo), a.N, alpha, A, a.lda, X, a.incx,
                     beta, C, a.incy)
      [] r = "geam" ->
            geamArgs("handle", char2hipblas_operation(a.transA),
                     char2hipblas_operation(a.transB), a.M, a.N, alpha, A, a.lda, beta, B,
                     a.ldb, C, a.ldc)
      [] r = "syrk_strided_batched" ->
            syrkArgs("handle", char2hipblas_fill(a.uplo), char2hipblas_operation(a.transA),
                     a.N, a.K, alpha, A, a.lda, syrk_shape(a).stride_A, beta, C, a.ldc,
                     syrk_shape(a).stride_C, a.batch_count)
      [] r = "syr2k_strided_batched" ->
            syr2kArgs("handle", char2hipblas_fill(a.uplo), char2hipblas_operation(a.transA),
                      a.N, a.K, alpha, A, a.lda, syr2k_shape(a).stride_A, B, a.ldb,
                      syr2k_shape(a).stride_B, beta, C, a.ldc, syr2k_shape(a).stride_C,
                      a.batch_count)

\* The device output operand, and the host buffers of the checked path.
OutDev(r) == IF r = "hemv" THEN "dy" ELSE "dC"
OutInit(r) == CASE r = "hemv" -> "hy" [] r = "geam" -> "hC1" [] r \in Strided -> "hC_host"
HostRes(r) == CASE r = "hemv" -> "hy_host" [] r = "geam" -> "hC1" [] r \in Strided -> "hC_host"
RestoreSrc(r) == CASE r = "hemv" -> "hy" [] r = "geam" -> "hC2" [] r \in Strided -> "hC_device"
DevRes(r) == CASE r = "hemv" -> "hy_device" [] r = "geam" -> "hC2" [] r \in Strided -> "hC_device"
Gold(r) == CASE r = "hemv" -> "hy_cpu" [] r = "geam" -> "hC_copy" [] r \in Strided -> "hC_gold"

\* Sizes of the buffers a driver allocates past the guard.
AllocSizes(r, a) ==
    [b \in AllBufs |->
        CASE r = "hemv" ->
                (IF b \in {"hA", "dA"} THEN hemv_sizes(a).A_size
                 ELSE IF b \in {"hx", "dx"} THEN hemv_sizes(a).X_size
                 ELSE IF b \in {"hy", "hy_cpu", "hy_host", "hy_device", "dy"}
                      THEN hemv_sizes(a).Y_size
                 ELSE IF b \in {"d_alpha", "d_beta"} THEN 1 ELSE -1)
          [] r = "geam" ->
                (IF b \in {"hA", "dA"} THEN geam_shape(a).A_size
                 ELSE IF b \in {"hB", "dB"} THEN geam_shape(a).B_size
                 ELSE IF b \in {"hC1", "hC2", "hC_copy", "dC"} THEN geam_shape(a).C_size
                 ELSE IF b \in {"d_alpha", "d_beta"} THEN 1 ELSE -1)
          [] r = "syrk_strided_batched" ->
                (IF b \in {"hA", "dA"} THEN syrk_shape(a).A_size
                 ELSE IF b \in {"hC_host", "hC_device", "hC_gold", "dC"}
                      THEN syrk_shape(a).C_size
                 ELSE IF b \in {"d_alpha", "d_beta"} THEN 1 ELSE -1)
          [] r = "syr2k_strided_batched" ->
                (IF b \in {"hA", "dA"} THEN syr2k_shape(a).A_size
                 ELSE IF b \in {"hB", "dB"} THEN syr2k_shape(a).B_size
                 ELSE IF b \in {"hC_host", "hC_device", "hC_gold", "dC"}
                      THEN syr2k_shape(a).C_size
                 ELSE IF b \in {"d_alpha", "d_beta"} THEN 1 ELSE -1)]

NoAlloc == [b \in AllBufs |-> -1]

\* One call of hipblas_init_matrix / hipblas_init_vector by a driver.
InitCall(buf, rows, cols, batch, reset) ==
    [buf |-> buf, rows |-> rows, cols |-> cols, batch |-> batch, reset |-> reset]

\* The drivers' initialization calls without the seedReset argument of the first.
InitCalls_noreset(r, a) ==
    CASE r = "hemv" ->
            <<InitCall("hA", a.N, a.N, 1, FALSE), InitCall("hx", 1, a.N, 1, FALSE),
              InitCall("hy", 1, a.N, 1, FALSE)>>
      [] r = "geam" ->
            <<InitCall("hA", geam_shape(a).A_row, geam_shape(a).A_col, 1, FALSE),
              InitCall("hB", geam_shape(a).B_row, geam_shape(a).B_col, 1, FALSE),
              InitCall("hC1", a.M, a.N, 1, FALSE)>>
      [] r = "syrk_strided_batched" ->
            <<InitCall("hA", a.N, syrk_shape(a).K1, a.batch_count, FALSE),
              InitCall("hC_host", a.N, a.N, a.batch_count, FALSE)>>
      [] r = "syr2k_strided_batched" ->
            <<InitCall("hA", a.N, syr2k_shape(a).K1, a.batch_count, FALSE),
              InitCall("hB", a.N, syr2k_shape(a).K1, a.batch_count, FALSE),
              InitCall("hC_host", a.N, a.N, a.batch_count, FALSE)>>

InitCalls(r, a) ==
    CASE r = "hemv" ->
            <<InitCall("hA", a.N, a.N, 1, TRUE), InitCall("hx", 1, a.N, 1, FALSE),
              InitCall("hy", 1, a.N, 1, FALSE)>>
      [] r = "geam" ->
            <<InitCall("hA", geam_shape(a).A_row, geam_shape(a).A_col, 1, TRUE),
              InitCall("hB", geam_shape(a).B_row, geam_shape(a).B_col, 1, FALSE),
              InitCall("hC1", a.M, a.N, 1, FALSE)>>
      [] r = "syrk_strided_batched" ->
            <<InitCall("hA", a.N, syrk_shape(a).K1, a.batch_count, TRUE),
              InitCall("hC_host", a.N, a.N, a.batch_count, FALSE)>>
      [] r = "syr2k_strided_batched" ->
            <<InitCall("hA", a.N, syr2k_shape(a).K1, a.batch_count, TRUE),
              InitCall("hB", a.N, syr2k_shape(a).K1, a.batch_count, FALSE),
              InitCall("hC_host", a.N, a.N, a.batch_count, FALSE)>>

\* hipblas_seedrand() puts the generator back at its seed.
hipblas_seedrand == 0

RECURSIVE ApplyInits(_, _, _)
ApplyInits(cs, g, hb) ==
    IF cs = <<>> THEN [rng |-> g, hbuf |-> hb]
    ELSE LET c == Head(cs)
             g0 == IF c.reset THEN hipblas_seedrand ELSE g
         IN  ApplyInits(Tail(cs), g0 + c.rows * c.cols * c.batch,
                        [hb EXCEPT ![c.buf] = Data(g0)])

\* The host-to-host copies that follow initialization (dst, src), in order.
HostCopies(r) ==
    CASE r = "hemv" -> <<<<"hy_cpu", "hy">>>>
      [] r = "geam" -> <<<<"hC2", "hC1">>, <<"hC_copy", "hC1">>>>
      [] r \in Strided -> <<<<"hC_device", "hC_host">>, <<"hC_gold", "hC_host">>>>

RECURSIVE ApplyCopies(_, _)
ApplyCopies(cs, hb) ==
    IF cs = <<>> THEN hb
    ELSE ApplyCopies(Tail(cs), [hb EXCEPT ![Head(cs)[1]] = hb[Head(cs)[2]]])

\* The host-to-device copies before the runs (dst, src).
H2D(r) ==
    CASE r = "hemv" -> {<<"dA", "hA">>, <<"dx", "hx">>, <<"dy", "hy">>}
      [] r = "geam" -> {<<"dA", "hA">>, <<"dB", "hB">>, <<"dC", "hC1">>}
      [] r = "syrk_strided_batched" -> {<<"dA", "hA">>, <<"dC", "hC_host">>}
      [] r = "syr2k_strided_batched" -> {<<"dA", "hA">>, <<"dB", "hB">>, <<"dC", "hC_host">>}

\* Result of the routine under test (ok: the backend computed what the reference
\* computes) and of the reference routine on an output operand.
Routine(c, ok) == [c EXCEPT !.runs = @ + 1, !.bad = @ \/ ~ok]
Reference(c) == [c EXCEPT !.runs = @ + 1]

\* Norm-check error (in units of 1e-9): zero exactly when the result equals the gold
\* buffer element for element, one of the positive magnitudes otherwise.
NormErrors(gold, res) == IF res = gold THEN {0} ELSE {1, 100000}

Uninit == -1

\* error_tolerance<T>, in units of 1e-9: 0.000061035 for hipblasHalf, 0.0 otherwise.
error_tolerance_half == 61035
error_tolerance(T) == IF T = "f16_r" THEN error_tolerance_half ELSE 0

\* ------------------------------------------------------------------------
\* Drivers: the steps of one case
\* ------------------------------------------------------------------------
restVars == <<ba, fill>>

QuickReturn_fallthrough ==
    /\ pc = "start"
    /\ quick_return(routine, arg)
    /\ calls' = Append(calls,
                  Invocation(DriverArgs(routine, arg, "nullptr", "nullptr", "nullptr",
                                        "nullptr", "nullptr", "nullptr"),
                             IF invalid_size(routine, arg) THEN INVALID_VALUE ELSE SUCCESS,
                             pointer_mode, NoData))
    /\ trace' = Append(trace, "quick_return")
    /\ alloc' = AllocSizes(routine, arg)
    /\ pc' = "init"
    /\ UNCHANGED <<routine, arg, hbuf, dbuf, pointer_mode, rng, iter, dispatches,
                   t_start, t_end, errs, failed, logged, ba, fill>>

\* `if(invalid_size || !N ...) { EXPECT status of one call with null pointers; return; }`
QuickReturn ==
    /\ pc = "start"
    /\ quick_return(routine, arg)
    /\ calls' = Append(calls,
                  Invocation(DriverArgs(routine, arg, "nullptr", "nullptr", "nullptr",
                                        "nullptr", "nullptr", "nullptr"),
                             IF invalid_size(routine, arg) THEN INVALID_VALUE ELSE SUCCESS,
                             pointer_mode, NoData))
    /\ trace' = Append(trace, "quick_return")
    /\ pc' = "done"
    /\ UNCHANGED <<routine, arg, alloc, hbuf, dbuf, pointer_mode, rng, iter, dispatches,
                   t_start, t_end, errs, failed, logged, ba, fill>>

\* The host_vector / device_vector declarations past the guard.
Allocate ==
    /\ pc = "start"
    /\ ~quick_return(routine, arg)
    /\ alloc' = AllocSizes(routine, arg)
    /\ trace' = Append(trace, "allocate")
    /\ pc' = "init"
    /\ UNCHANGED <<routine, arg, calls, hbuf, dbuf, pointer_mode, rng, iter, dispatches,
                   t_start, t_end, errs, failed, logged, ba, fill>>

\* The leading dimension (or increment) and batch stride each initialization call passes.
InitLayout(r, a, buf) ==
    CASE r = "hemv" ->
            [ld |-> IF buf = "hA" THEN a.lda
                    ELSE IF buf = "hx" THEN Abs(a.incx) ELSE Abs(a.incy),
             stride |-> 0]
      [] r = "geam" ->
            [ld |-> IF buf = "hA" THEN a.lda ELSE IF buf = "hB" THEN a.ldb ELSE a.ldc,
             stride |-> 0]
      [] r = "syrk_strided_batched" ->
            [ld |-> IF buf = "hA" THEN a.lda ELSE a.ldc,
             stride |-> IF buf = "hA" THEN syrk_shape(a).stride_A ELSE syrk_shape(a).stride_C]
      [] r = "syr2k_strided_batched" ->
            [ld |-> IF buf = "hA" THEN a.lda ELSE IF buf = "hB" THEN a.ldb ELSE a.ldc,
             stride |-> IF buf = "hA" THEN syr2k_shape(a).stride_A
                        ELSE IF buf = "hB" THEN syr2k_shape(a).stride_B
                        ELSE syr2k_shape(a).stride_C]

\* The offsets one initialization call stores to: A[i + j * lda] with A = A_data + b * stride.
InitOffsets(r, a, c) ==
    {i + j * InitLayout(r, a, c.buf).ld + b * InitLayout(r, a, c.buf).stride :
        b \in 0 .. c.batch - 1, i \in 0 .. c.rows - 1, j \in 0 .. c.cols - 1}

\* Some initialization call stores past the end of the host_vector it fills.
InitOverrun(r, a) ==
    \E k \in 1 .. Len(InitCalls(r, a)) :
        \E p \in InitOffsets(r, a, InitCalls(r, a)[k]) :
            p >= AllocSizes(r, a)[InitCalls(r, a)[k].buf]

\* "Initial Data on CPU": the hipblas_init_* calls and the copies of the output operand.
\* A store past the end of a buffer is undefined: the run goes on or ends there.
InitData ==
    /\ pc = "init"
    /\ LET r == ApplyInits(InitCalls(routine, arg), rng, hbuf)
       IN  /\ rng' = r.rng
           /\ hbuf' = ApplyCopies(HostCopies(routine), r.hbuf)
    /\ trace' = Append(trace, "init")
    /\ pc' \in (IF InitOverrun(routine, arg) THEN {"h2d", "crashed"} ELSE {"h2d"})
    /\ UNCHANGED <<routine, arg, calls, alloc, dbuf, pointer_mode, iter, dispatches,
                   t_start, t_end, errs, failed, logged, ba, fill>>

AfterChecks(a) == IF a.timing THEN "timing" ELSE "done"

\* "copy data from CPU to device"
CopyToDevice ==
    /\ pc = "h2d"
    /\ dbuf' = [b \in DevBufs |->
                  IF \E c \in H2D(routine) : c[1] = b
                  THEN hbuf[(CHOOSE c \in H2D(routine) : c[1] = b)[2]]
                  ELSE IF b \in {"d_alpha", "d_beta"} THEN Scalar ELSE dbuf[b]]
    /\ trace' = Append(trace, "h2d")
    /\ pc' = IF arg.unit_check \/ arg.norm_check THEN "host_run" ELSE AfterChecks(arg)
    /\ UNCHANGED <<routine, arg, calls, alloc, hbuf, pointer_mode, rng, iter, dispatches,
                   t_start, t_end, errs, failed, logged, ba, fill>>

RunArgs(r, a, alpha, beta) == DriverArgs(r, a, alpha, beta, "dA", "dB", "dx", OutDev(r))

\* hipblasSetPointerMode(HOST); the routine with &h_alpha, &h_beta.
HostRun ==
    /\ pc = "host_run"
    /\ \E ok \in BOOLEAN :
          /\ dbuf' = [dbuf EXCEPT ![OutDev(routine)] = Routine(@, ok)]
    /\ pointer_mode' = HOST
    /\ calls' = Append(calls, Invocation(RunArgs(routine, arg, "&h_alpha", "&h_beta"),
                                         SUCCESS, HOST, dbuf[OutDev(routine)]))
    /\ trace' = Append(trace, "host_run")
    /\ pc' = "host_back"
    /\ UNCHANGED <<routine, arg, alloc, hbuf, rng, iter, dispatches, t_start, t_end, errs,
                   failed, logged, ba, fill>>

\* hipMemcpy(host-mode result buffer <- device output)
CopyBackHost ==
    /\ pc = "host_back"
    /\ hbuf' = [hbuf EXCEPT ![HostRes(routine)] = dbuf[OutDev(routine)]]
    /\ trace' = Append(trace, "host_back")
    /\ pc' = "restore"
    /\ UNCHANGED <<routine, arg, calls, alloc, dbuf, pointer_mode, rng, iter, dispatches,
                   t_start, t_end, errs, failed, logged, ba, fill>>

RestoreOutput_fromResult ==
    /\ pc = "restore"
    /\ dbuf' = [dbuf EXCEPT ![OutDev(routine)] = hbuf[HostRes(routine)]]
    /\ trace' = Append(trace, "restore")
    /\ pc' = "device_run"
    /\ UNCHANGED <<routine, arg, calls, alloc, hbuf, pointer_mode, rng, iter, dispatches,
                   t_start, t_end, errs, failed, logged, ba, fill>>

\* hipMemcpy(device output <- the host copy of the initial output data)
RestoreOutput ==
    /\ pc = "restore"
    /\ dbuf' = [dbuf EXCEPT ![OutDev(routine)] = hbuf[RestoreSrc(routine)]]
    /\ trace' = Append(trace, "restore")
    /\ pc' = "device_run"
    /\ UNCHANGED <<routine, arg, calls, alloc, hbuf, pointer_mode, rng, iter, dispatches,
                   t_start, t_end, errs, failed, logged, ba, fill>>

\* hipblasSetPointerMode(DEVICE); the routine with d_alpha, d_beta.
DeviceRun ==
    /\ pc = "device_run"
    /\ \E ok \in BOOLEAN :
          /\ dbuf' = [dbuf EXCEPT ![OutDev(routine)] = Routine(@, ok)]
    /\ pointer_mode' = DEVICE
    /\ calls' = Append(calls, Invocation(RunArgs(routine, arg, "d_alpha", "d_beta"),
                                         SUCCESS, DEVICE, dbuf[OutDev(routine)]))
    /\ trace' = Append(trace, "device_run")
    /\ pc' = "device_back"
    /\ UNCHANGED <<routine, arg, alloc, hbuf, rng, iter, dispatches, t_start, t_end, errs,
                   failed, logged, ba, fill>>

\* hipMemcpy(device-mode result buffer <- device output)
CopyBackDevice ==
    /\ pc = "device_back"
    /\ hbuf' = [hbuf EXCEPT ![DevRes(routine)] = dbuf[OutDev(routine)]]
    /\ trace' = Append(trace, "device_back")
    /\ pc' = "reference"
    /\ UNCHANGED <<routine, arg, calls, alloc, dbuf, pointer_mode, rng, iter, dispatches,
                   t_start, t_end, errs, failed, logged, ba, fill>>

\* The reference run followed by the norm checks even when unit_check is set.
RunReference_normFirst ==
    /\ pc = "reference"
    /\ hbuf' = [hbuf EXCEPT ![Gold(routine)] = Reference(@)]
    /\ trace' = Append(trace, "reference")
    /\ pc' = IF arg.norm_check THEN "norm_check" ELSE "unit_check"
    /\ UNCHANGED <<routine, arg, calls, alloc, dbuf, pointer_mode, rng, iter, dispatches,
                   t_start, t_end, errs, failed, logged, ba, fill>>

\* "CPU BLAS": the reference routine updates the gold buffer in place.
RunReference ==
    /\ pc = "reference"
    /\ hbuf' = [hbuf EXCEPT ![Gold(routine)] = Reference(@)]
    /\ trace' = Append(trace, "reference")
    /\ pc' = IF arg.unit_check THEN "unit_check" ELSE "norm_check"
    /\ UNCHANGED <<routine, arg, calls, alloc, dbuf, pointer_mode, rng, iter, dispatches,
                   t_start, t_end, errs, failed, logged, ba, fill>>

\* `if(arg.unit_check)`: two exact comparisons against the gold buffer.
UnitCheck ==
    /\ pc = "unit_check"
    /\ failed' = (failed \/ hbuf[HostRes(routine)] # hbuf[Gold(routine)]
                         \/ hbuf[DevRes(routine)] # hbuf[Gold(routine)])
    /\ trace' = trace \o <<"unit_check_host", "unit_check_device">>
    /\ pc' = IF arg.norm_check THEN "norm_check" ELSE AfterChecks(arg)
    /\ UNCHANGED <<routine, arg, calls, alloc, hbuf, dbuf, pointer_mode, rng, iter,
                   dispatches, t_start, t_end, errs, logged, ba, fill>>

NormCheck_compares ==
    /\ pc = "norm_check"
    /\ \E eh \in NormErrors(hbuf[Gold(routine)], hbuf[HostRes(routine)]),
          ed \in NormErrors(hbuf[Gold(routine)], hbuf[DevRes(routine)]) :
          /\ errs' = [host |-> eh, device |-> ed]
          /\ failed' = (failed \/ eh > 0 \/ ed > 0)
    /\ trace' = trace \o <<"norm_check_host", "norm_check_device">>
    /\ pc' = AfterChecks(arg)
    /\ UNCHANGED <<routine, arg, calls, alloc, hbuf, dbuf, pointer_mode, rng, iter,
                   dispatches, t_start, t_end, logged, ba, fill>>

\* `if(arg.norm_check)`: the two norm errors are computed and stored.
NormCheck ==
    /\ pc = "norm_check"
    /\ \E eh \in NormErrors(hbuf[Gold(routine)], hbuf[HostRes(routine)]),
          ed \in NormErrors(hbuf[Gold(routine)], hbuf[DevRes(routine)]) :
          errs' = [host |-> eh, device |-> ed]
    /\ trace' = trace \o <<"norm_check_host", "norm_check_device">>
    /\ pc' = AfterChecks(arg)
    /\ UNCHANGED <<routine, arg, calls, alloc, hbuf, dbuf, pointer_mode, rng, iter,
                   dispatches, t_start, t_end, failed, logged, ba, fill>>

\* `if(arg.timing)`: stream, pointer mode DEVICE (hemv first restores dy from hy).
TimingSetup ==
    /\ pc = "timing"
    /\ dbuf' = IF routine = "hemv" THEN [dbuf EXCEPT !["dy"] = hbuf["hy"]] ELSE dbuf
    /\ pointer_mode' = DEVICE
    /\ iter' = 0
    /\ trace' = Append(trace, "timing_setup")
    /\ pc' = "loop"
    /\ UNCHANGED <<routine, arg, calls, alloc, hbuf, rng, dispatches, t_start, t_end, errs,
                   failed, logged, ba, fill>>

\* One iteration of `for(iter = 0; iter < runs; iter++)`.
TimingIter ==
    /\ pc = "loop"
    /\ iter < arg.cold_iters + arg.iters
    /\ t_start' = IF iter = arg.cold_iters THEN Append(t_start, dispatches) ELSE t_start
    /\ dispatches' = dispatches + 1
    /\ dbuf' = [dbuf EXCEPT ![OutDev(routine)] = Routine(@, TRUE)]
    /\ calls' = Append(calls, Invocation(RunArgs(routine, arg, "d_alpha", "d_beta"),
                                         IF routine = "hemv" THEN SUCCESS ELSE "unchecked",
                                         pointer_mode, dbuf[OutDev(routine)]))
    /\ iter' = iter + 1
    /\ trace' = Append(trace, "dispatch")
    /\ UNCHANGED <<routine, arg, pc, alloc, hbuf, pointer_mode, rng, t_end, errs, failed,
                   logged, ba, fill>>

\* Loop exit: the end timestamp, gpu_time_used, and the performance record.
TimingEnd ==
    /\ pc = "loop"
    /\ ~(iter < arg.cold_iters + arg.iters)
    /\ t_end' = Append(t_end, dispatches)
    /\ logged' = Append(logged, [start_taken |-> Len(t_start) > 0,
                                 hipblas_error_host |-> errs.host,
                                 hipblas_error_device |-> errs.device])
    /\ trace' = Append(trace, "log_args")
    /\ pc' = "done"
    /\ UNCHANGED <<routine, arg, calls, alloc, hbuf, dbuf, pointer_mode, rng, iter,
                   dispatches, t_start, errs, failed, ba, fill>>

DriverNext ==
    \/ QuickReturn
    \/ Allocate
    \/ InitData
    \/ CopyToDevice
    \/ HostRun
    \/ CopyBackHost
    \/ RestoreOutput
    \/ DeviceRun
    \/ CopyBackDevice
    \/ RunReference
    \/ UnitCheck
    \/ NormCheck
    \/ TimingSetup
    \/ TimingIter
    \/ TimingEnd

\* ------------------------------------------------------------------------
\* Cases
\* ------------------------------------------------------------------------
Dims == -1 .. MaxDim
Lds == 0 .. MaxLd
Incs == -MaxInc .. MaxInc
Batches == -1 .. MaxBatch
Apis == {"C", "FORTRAN", "C_64", "FORTRAN_64"}

BaseArg ==
    [a_type |-> "f32_c", api |-> "C", uplo |-> "U", transA |-> "N", transB |-> "N",
     M |-> 1, N |-> 1, K |-> 1, lda |-> 1, ldb |-> 1, ldc |-> 1, incx |-> 1, incy |-> 1,
     stride_scale |-> 1, batch_count |-> 1, unit_check |-> TRUE, norm_check |-> TRUE,
     timing |-> TRUE, cold_iters |-> 1, iters |-> 1, bad_arg_all |-> FALSE]

\* The size grid of each routine's case table (checks and timing on).
CaseArgs(r) ==
    CASE r = "hemv" ->
            {[BaseArg EXCEPT !.N = n, !.lda = l, !.incx = ix, !.incy = iy] :
                n \in Dims, l \in Lds, ix \in Incs, iy \in Incs}
      [] r = "geam" ->
            {[BaseArg EXCEPT !.M = m, !.N = n, !.lda = l[1], !.ldb = l[2], !.ldc = l[3],
                             !.transA = t[1], !.transB = t[2]] :
                m \in Dims, n \in Dims, l \in Lds \X Lds \X Lds, t \in {"N", "T"} \X {"N", "T"}}
      [] r = "syrk_strided_batched" ->
            {[BaseArg EXCEPT !.N = n, !.K = k, !.lda = l[1], !.ldc = l[2], !.transA = t,
                             !.batch_count = bc] :
                n \in Dims, k \in Dims, l \in Lds \X Lds, t \in {"N", "T"}, bc \in Batches}
      [] r = "syr2k_strided_batched" ->
            {[BaseArg EXCEPT !.N = n, !.K = k, !.lda = l[1], !.ldb = l[2], !.ldc = l[3],
                             !.transA = t, !.batch_count = bc] :
                n \in Dims, k \in Dims, l \in Lds \X Lds \X Lds, t \in {"N", "T"},
                bc \in Batches}

\* The flag and timing grid over a few shapes.
RunArgsSet(r) ==
    {[BaseArg EXCEPT !.N = n, !.a_type = ty, !.api = api, !.unit_check = f[1],
                     !.norm_check = f[2], !.timing = f[3], !.cold_iters = c, !.iters = i,
                     !.stride_scale = IF r \in Strided THEN ss ELSE 1] :
        n \in {0, 1}, ty \in {"f32_c", "f64_c"}, api \in Apis,
        f \in BOOLEAN \X BOOLEAN \X BOOLEAN, c \in 0 .. MaxIters, i \in 0 .. MaxIters,
        ss \in {1, 2}}

RngAtEntry == 3
BaIdle ==
    [pc |-> "idle", m |-> 1, k |-> 1,
     ptr |-> [alpha |-> "nullptr", beta |-> "nullptr", one |-> "nullptr", zero |-> "nullptr"],
     dmem |-> [d_alpha |-> -1, d_beta |-> -1, d_one |-> -1, d_zero |-> -1]]
FillIdle == [pc |-> "idle"]

\* A driver entered with the generator at position g (whatever ran before left it there).
DriverInitAt(r, a, g) ==
    /\ routine = r
    /\ arg = a
    /\ pc = "start"
    /\ calls = <<>>
    /\ trace = <<>>
    /\ alloc = NoAlloc
    /\ hbuf = [b \in HostBufs |-> NoData]
    /\ dbuf = [b \in DevBufs |-> NoData]
    /\ pointer_mode = HOST
    /\ rng = g
    /\ iter = 0
    /\ dispatches = 0
    /\ t_start = <<>>
    /\ t_end = <<>>
    /\ errs = [host |-> Uninit, device |-> Uninit]
    /\ failed = FALSE
    /\ logged = <<>>
    /\ ba = BaIdle
    /\ fill = [pc |-> "idle", entry |-> g]

DriverInit(r, a) ==
    /\ DriverInitAt(r, a, RngAtEntry)

InitCases == \E r \in Routines : \E a \in CaseArgs(r) : DriverInit(r, a)
InitRuns == \E r \in Routines : \E a \in RunArgsSet(r) : DriverInit(r, a)

SpecCases == InitCases /\ [][DriverNext]_vars
SpecRuns == InitRuns /\ [][DriverNext]_vars

\* ------------------------------------------------------------------------
\* Claims about the drivers' guards (SpecCases)
\* ------------------------------------------------------------------------
NegativeSize(r, a) ==
    CASE r = "hemv" -> a.N < 0
      [] r = "geam" -> a.M < 0 \/ a.N < 0
      [] r \in Strided -> a.N < 0 \/ a.K < 0 \/ a.batch_count < 0

\* Rows of an operand as stored: the extent its leading dimension must cover.
RowsOfA(r, a) ==
    CASE r = "hemv" -> a.N
      [] r = "geam" -> IF a.transA = "N" THEN a.M ELSE a.N
      [] r \in Strided -> IF a.transA = "N" THEN a.N ELSE a.K
RowsOfB(r, a) ==
    CASE r = "geam" -> IF a.transB = "N" THEN a.M ELSE a.N
      [] r = "syr2k_strided_batched" -> IF a.transA = "N" THEN a.N ELSE a.K
      [] OTHER -> 0
RowsOfC(r, a) == IF r = "geam" THEN a.M ELSE a.N

LdBelowExtent(r, a) ==
    \/ a.lda < RowsOfA(r, a)
    \/ (r \in {"geam", "syr2k_strided_batched"} /\ a.ldb < RowsOfB(r, a))
    \/ (r # "hemv" /\ a.ldc < RowsOfC(r, a))

ZeroIncrement(r, a) == r = "hemv" /\ (a.incx = 0 \/ a.incy = 0)

ZeroShape(r, a) ==
    CASE r = "hemv" -> a.N = 0
      [] r = "geam" -> a.M = 0 \/ a.N = 0
      [] r \in Strided -> a.N = 0 \/ a.batch_count = 0

TookQuickReturn == Len(trace) >= 1 /\ trace[1] = "quick_return"

\* C1: whenever some size parameter of the case is negative, the driver's single
\* invocation is asserted to return INVALID_VALUE (never SUCCESS), also when another
\* size parameter is zero.
C1_NegativeSizeAssertedInvalid ==
    (pc # "start" /\ NegativeSize(routine, arg)) =>
        /\ trace = <<"quick_return">>
        /\ Len(calls) = 1
        /\ calls[1].expect = INVALID_VALUE

C1_Witness ==
    /\ pc = "done"
    /\ routine = "syrk_strided_batched"
    /\ arg.N = 0 /\ arg.K = -1
    /\ Len(calls) = 1 /\ calls[1].expect = INVALID_VALUE

Classified(inv) ==
    pc # "start" =>
        /\ TookQuickReturn => (calls[1].expect = INVALID_VALUE <=> inv)
        /\ TookQuickReturn => (calls[1].expect = SUCCESS <=> ~inv)
        /\ ~TookQuickReturn => ~inv
        /\ (ZeroShape(routine, arg) /\ ~inv) =>
              (TookQuickReturn /\ calls[1].expect = SUCCESS)

\* C2 as stated: a zero-shape, otherwise well-formed case is asserted SUCCESS, and a
\* case is invalid-size exactly when a size is negative, a leading dimension is below
\* its extent, or an increment is zero.
C2_Original ==
    Classified(NegativeSize(routine, arg) \/ LdBelowExtent(routine, arg)
               \/ ZeroIncrement(routine, arg))

\* C2 amended: as C2, except that testing_hemv also classifies lda < 1 as invalid-size
\* (so its N = 0 case is asserted SUCCESS only when lda >= 1).
C2_ZeroShapeSuccess ==
    Classified(NegativeSize(routine, arg) \/ LdBelowExtent(routine, arg)
               \/ ZeroIncrement(routine, arg) \/ (routine = "hemv" /\ arg.lda < 1))

C2_Witness ==
    /\ pc = "done"
    /\ routine = "hemv"
    /\ arg.N = 0 /\ arg.lda = 1 /\ arg.incx = -1 /\ arg.incy = 1
    /\ Len(calls) = 1 /\ calls[1].expect = SUCCESS

\* C3: on the quick-return path the routine is invoked exactly once, with every scalar
\* and data pointer null, and the driver returns with nothing allocated, initialized,
\* referenced, compared or timed.
C3_QuickReturnMinimal ==
    (pc # "start" /\ quick_return(routine, arg)) =>
        /\ pc = "done"
        /\ trace = <<"quick_return">>
        /\ Len(calls) = 1
        /\ \A f \in ScalarPtrs(routine) \cup DataPtrs(routine) : calls[1].args[f] = "nullptr"
        /\ alloc = NoAlloc
        /\ \A b \in HostBufs : hbuf[b] = NoData
        /\ \A b \in DevBufs : dbuf[b] = NoData
        /\ rng = RngAtEntry
        /\ dispatches = 0 /\ t_start = <<>> /\ t_end = <<>> /\ logged = <<>>
        /\ errs = [host |-> Uninit, device |-> Uninit]

C3_Witness ==
    /\ pc = "done"
    /\ routine = "geam"
    /\ arg.M = 0 /\ arg.N = 2
    /\ trace = <<"quick_return">>
    /\ Len(calls) = 1 /\ calls[1].args.A = "nullptr" /\ calls[1].args.alpha = "nullptr"
    /\ alloc = NoAlloc

\* ------------------------------------------------------------------------
\* Claims about the checked path and the timing loop (SpecRuns)
\* ------------------------------------------------------------------------
ReferenceDone == Len(trace) >= 9 /\ trace[9] = "reference"

\* C7: the host-mode run precedes the device-mode run; the device output is restored
\* to the initial output data in between, so both runs start from the same contents;
\* the two results and the gold data live in three different host buffers.
C7_RunsStartFromInitialData ==
    ReferenceDone =>
        /\ SubSeq(trace, 1, 9) = <<"allocate", "init", "h2d", "host_run", "host_back",
                                   "restore", "device_run", "device_back", "reference">>
        /\ calls[1].mode = HOST /\ calls[2].mode = DEVICE
        /\ calls[1].cin = calls[2].cin
        /\ calls[1].cin.runs = 0 /\ calls[1].cin.seed >= 0
        /\ Cardinality({HostRes(routine), DevRes(routine), Gold(routine)}) = 3
        /\ hbuf[Gold(routine)] = Reference(calls[1].cin)
        /\ hbuf[HostRes(routine)] \in {Routine(calls[1].cin, ok) : ok \in BOOLEAN}
        /\ hbuf[DevRes(routine)] \in {Routine(calls[1].cin, ok) : ok \in BOOLEAN}

C7_Witness ==
    /\ pc = "done"
    /\ routine = "geam"
    /\ ReferenceDone
    /\ Len(calls) >= 2 /\ calls[2].mode = DEVICE /\ calls[2].cin.runs = 0
    /\ hbuf["hC1"].runs = 1 /\ hbuf["hC2"].runs = 1 /\ hbuf["hC_copy"].runs = 1

\* C8 as stated: with cold_iters = c and iters = n the timing loop dispatches c + n
\* times, takes the start timestamp exactly once, after the c-th dispatch, and the end
\* timestamp after the last dispatch.
C8_TimedRegion ==
    (pc = "done" /\ logged # <<>>) =>
        /\ dispatches = arg.cold_iters + arg.iters
        /\ Len(t_start) = 1
        /\ t_start[1] = arg.cold_iters
        /\ t_end = <<arg.cold_iters + arg.iters>>

NormChecksDone ==
    \E k \in 1 .. Len(trace) : trace[k] = "norm_check_device"

c_i32_overflow == 2147483647
Is64(api) == api \in {"C_64", "FORTRAN_64"}

\* h_alpha(1), h_beta(2), h_one(1), h_zero(0)
HostScalars == [alpha |-> 1, beta |-> 2, one |-> 1, zero |-> 0]
HostPtrs == [alpha |-> "&h_alpha", beta |-> "&h_beta", one |-> "&h_one", zero |-> "&h_zero"]
DevPtrs == [alpha |-> "d_alpha", beta |-> "d_beta", one |-> "d_one", zero |-> "d_zero"]
NoDevScalars == [d_alpha |-> Uninit, d_beta |-> Uninit, d_one |-> Uninit, d_zero |-> Uninit]

\* The scalars each suite declares (geam has no `one`).
SuiteScalars(r) == IF r = "geam" THEN {"alpha", "beta", "zero"} ELSE {"alpha", "beta", "one", "zero"}

\* The memory a pointer value refers to, and the scalar it points at.
MemSpace(ptr) ==
    IF ptr \in {"&h_alpha", "&h_beta", "&h_one", "&h_zero"} THEN "host"
    ELSE IF ptr = "nullptr" THEN "null" ELSE "device"
Deref(ptr, dmem) ==
    CASE ptr = "&h_alpha" -> HostScalars.alpha
      [] ptr = "&h_beta" -> HostScalars.beta
      [] ptr = "&h_one" -> HostScalars.one
      [] ptr = "&h_zero" -> HostScalars.zero
      [] ptr = "d_alpha" -> dmem.d_alpha
      [] ptr = "d_beta" -> dmem.d_beta
      [] ptr = "d_one" -> dmem.d_one
      [] ptr = "d_zero" -> dmem.d_zero
      [] OTHER -> Uninit

Exp(status, args) == [args |-> args, expect |-> status]

\* The valid argument tuple of each suite (p: the suite's scalar pointers).
hemv_baseline(p) ==
    hemvArgs("handle", "HIPBLAS_FILL_MODE_UPPER", 100, p.alpha, "dA", 100, "dx", 1, p.beta,
             "dy", 1)
geam_baseline(p) ==
    geamArgs("handle", "HIPBLAS_OP_N", "HIPBLAS_OP_N", 101, 100, p.alpha, "dA", 102, p.beta,
             "dB", 103, "dC", 104)
syrk_baseline(p) ==
    syrkArgs("handle", "HIPBLAS_FILL_MODE_LOWER", "HIPBLAS_OP_N", 101, 100, p.alpha, "dA",
             102, 100 * 102, p.beta, "dC", 104, 101 * 104, 2)
syr2k_baseline(p) ==
    syr2kArgs("handle", "HIPBLAS_FILL_MODE_LOWER", "HIPBLAS_OP_N", 101, 100, p.alpha, "dA",
              102, 100 * 102, "dB", 103, 100 * 103, p.beta, "dC", 104, 101 * 104, 2)

Baseline(r, p) ==
    CASE r = "hemv" -> hemv_baseline(p)
      [] r = "geam" -> geam_baseline(p)
      [] r = "syrk_strided_batched" -> syrk_baseline(p)
      [] r = "syr2k_strided_batched" -> syr2k_baseline(p)

With(b, f, v) == [b EXCEPT ![f] = v]
With2(b, f, v, g, w) == [b EXCEPT ![f] = v, ![g] = w]
With3(b, f, v, g, w, h, x) == [b EXCEPT ![f] = v, ![g] = w, ![h] = x]

AllNull_dataonly(r, b) ==
    [f \in DOMAIN b |-> IF f \in DataPtrs(r) THEN "nullptr" ELSE b[f]]

\* The baseline with every scalar and data pointer null.
AllNull(r, b) ==
    [f \in DOMAIN b |-> IF f \in ScalarPtrs(r) \cup DataPtrs(r) THEN "nullptr" ELSE b[f]]

hemv_bad_arg_calls_twonull(p, mode, a) ==
    LET b == hemv_baseline(p)
    IN  <<Exp(NOT_INITIALIZED, With(b, "handle", "nullptr")),
          Exp(INVALID_VALUE, With(b, "uplo", "HIPBLAS_FILL_MODE_FULL")),
          Exp(INVALID_ENUM, With(b, "uplo", "HIPBLAS_OP_N"))>>
        \o (IF a.bad_arg_all
            THEN <<Exp(INVALID_VALUE, With2(b, "alpha", "nullptr", "beta", "nullptr")),
                   Exp(INVALID_VALUE, With(b, "beta", "nullptr"))>>
                 \o (IF mode = HOST
                     THEN <<Exp(INVALID_VALUE, With(b, "A", "nullptr")),
                            Exp(INVALID_VALUE, With(b, "x", "nullptr")),
                            Exp(INVALID_VALUE, With(b, "y", "nullptr"))>>
                     ELSE <<>>)
                 \o <<Exp(SUCCESS, With3(b, "alpha", p.zero, "A", "nullptr", "x", "nullptr")),
                      Exp(SUCCESS, With2(With3(b, "alpha", p.zero, "A", "nullptr",
                                               "x", "nullptr"),
                                         "beta", p.one, "y", "nullptr"))>>
            ELSE <<>>)
        \o <<Exp(SUCCESS, With(AllNull("hemv", b), "N", 0))>>

\* testing_hemv_bad_arg: the invocations of one pointer-mode iteration, in order.
hemv_bad_arg_calls(p, mode, a) ==
    LET b == hemv_baseline(p)
    IN  <<Exp(NOT_INITIALIZED, With(b, "handle", "nullptr")),
          Exp(INVALID_VALUE, With(b, "uplo", "HIPBLAS_FILL_MODE_FULL")),
          Exp(INVALID_ENUM, With(b, "uplo", "HIPBLAS_OP_N"))>>
        \o (IF a.bad_arg_all
            THEN <<Exp(INVALID_VALUE, With(b, "alpha", "nullptr")),
                   Exp(INVALID_VALUE, With(b, "beta", "nullptr"))>>
                 \o (IF mode = HOST
                     THEN <<Exp(INVALID_VALUE, With(b, "A", "nullptr")),
                            Exp(INVALID_VALUE, With(b, "x", "nullptr")),
                            Exp(INVALID_VALUE, With(b, "y", "nullptr"))>>
                     ELSE <<>>)
                 \o <<Exp(SUCCESS, With3(b, "alpha", p.zero, "A", "nullptr", "x", "nullptr")),
                      Exp(SUCCESS, With2(With3(b, "alpha", p.zero, "A", "nullptr",
                                               "x", "nullptr"),
                                         "beta", p.one, "y", "nullptr"))>>
            ELSE <<>>)
        \o <<Exp(SUCCESS, With(AllNull("hemv", b), "N", 0))>>

\* The argument tuples of geam's two 64-bit probes and of its two closing calls.
geam_overflow_args(b, M, N) ==
    [AllNull("geam", b) EXCEPT !.M = M, !.N = N, !.lda = c_i32_overflow,
                               !.ldb = c_i32_overflow, !.ldc = c_i32_overflow]
geam_zero_args(b, M, N) ==
    [AllNull("geam", b) EXCEPT !.M = M, !.N = N, !.ldb = b.lda, !.ldc = b.lda]

\* testing_geam_bad_arg: the invocations of one pointer-mode iteration, in order.
geam_bad_arg_calls(p, mode, a) ==
    LET b == geam_baseline(p)
    IN  <<Exp(NOT_INITIALIZED, With(b, "handle", "nullptr")),
          Exp(INVALID_ENUM, With(b, "transA", "HIPBLAS_FILL_MODE_FULL")),
          Exp(INVALID_ENUM, With(b, "transB", "HIPBLAS_FILL_MODE_FULL"))>>
        \o (IF a.bad_arg_all
            THEN <<Exp(INVALID_VALUE, With2(b, "C", "dA", "ldc", b.lda + 1)),
                   Exp(INVALID_VALUE, With2(b, "C", "dB", "ldc", b.ldb + 1)),
                   Exp(INVALID_VALUE, With(b, "alpha", "nullptr")),
                   Exp(INVALID_VALUE, With(b, "beta", "nullptr")),
                   Exp(INVALID_VALUE, With(b, "C", "nullptr"))>>
                 \o (IF mode = HOST
                     THEN <<Exp(INVALID_VALUE, With(b, "A", "nullptr")),
                            Exp(INVALID_VALUE, With(b, "B", "nullptr"))>>
                     ELSE <<>>)
                 \o <<Exp(SUCCESS, With2(b, "alpha", p.zero, "A", "nullptr")),
                      Exp(SUCCESS, With2(b, "beta", p.zero, "B", "nullptr")),
                      Exp(IF Is64(a.api) THEN SUCCESS ELSE INVALID_VALUE,
                          geam_overflow_args(b, 0, c_i32_overflow)),
                      Exp(IF Is64(a.api) THEN SUCCESS ELSE INVALID_VALUE,
                          geam_overflow_args(b, c_i32_overflow, 0))>>
            ELSE <<>>)
        \o <<Exp(SUCCESS, geam_zero_args(b, 0, b.N)),
             Exp(SUCCESS, geam_zero_args(b, b.M, 0))>>

syrk_bad_arg_calls_beta(p, mode, a) ==
    LET b == syrk_baseline(p)
    IN  <<Exp(NOT_INITIALIZED, With(b, "handle", "nullptr")),
          Exp(INVALID_VALUE, With(b, "uplo", "HIPBLAS_FILL_MODE_FULL")),
          Exp(INVALID_ENUM, With(b, "uplo", "HIPBLAS_OP_N")),
          Exp(INVALID_ENUM, With(b, "transA", "HIPBLAS_FILL_MODE_FULL"))>>
        \o (IF a.bad_arg_all
            THEN <<Exp(INVALID_VALUE, With(b, "alpha", "nullptr")),
                   Exp(INVALID_VALUE, With(b, "beta", "nullptr"))>>
                 \o (IF mode = HOST
                     THEN <<Exp(INVALID_VALUE, With(b, "A", "nullptr")),
                            Exp(INVALID_VALUE, With(b, "C", "nullptr"))>>
                     ELSE <<>>)
                 \o <<Exp(SUCCESS, [b EXCEPT !.K = 0, !.A = "nullptr", !.beta = p.one,
                                             !.C = "nullptr"]),
                      Exp(SUCCESS, With3(b, "alpha", p.zero, "A", "nullptr",
                                         "C", "nullptr")),
                      Exp(IF Is64(a.api) THEN SUCCESS ELSE INVALID_VALUE,
                          [b EXCEPT !.N = c_i32_overflow, !.K = c_i32_overflow,
                                    !.alpha = p.zero, !.A = "nullptr",
                                    !.lda = c_i32_overflow, !.beta = p.one,
                                    !.C = "nullptr", !.ldc = c_i32_overflow,
                                    !.batch_count = c_i32_overflow])>>
            ELSE <<>>)
        \o <<Exp(SUCCESS, With(AllNull("syrk_strided_batched", b), "N", 0)),
             Exp(SUCCESS, With(AllNull("syrk_strided_batched", b), "batch_count", 0))>>

\* testing_syrk_strided_batched_bad_arg: the invocations of one pointer-mode
\* iteration, in order.
syrk_bad_arg_calls(p, mode, a) ==
    LET b == syrk_baseline(p)
    IN  <<Exp(NOT_INITIALIZED, With(b, "handle", "nullptr")),
          Exp(INVALID_VALUE, With(b, "uplo", "HIPBLAS_FILL_MODE_FULL")),
          Exp(INVALID_ENUM, With(b, "uplo", "HIPBLAS_OP_N")),
          Exp(INVALID_ENUM, With(b, "transA", "HIPBLAS_FILL_MODE_FULL"))>>
        \o (IF a.bad_arg_all
            THEN <<Exp(INVALID_VALUE, With(b, "alpha", "nullptr")),
                   Exp(INVALID_VALUE, With(b, "beta", "nullptr"))>>
                 \o (IF mode = HOST
                     THEN <<Exp(INVALID_VALUE, With(b, "A", "nullptr")),
                            Exp(INVALID_VALUE, With(b, "C", "nullptr"))>>
                     ELSE <<>>)
                 \o <<Exp(SUCCESS, [b EXCEPT !.K = 0, !.A = "nullptr", !.beta = p.one,
                                             !.C = "nullptr"]),
                      Exp(SUCCESS, [b EXCEPT !.alpha = p.zero, !.A = "nullptr",
                                             !.beta = p.one, !.C = "nullptr"]),
                      Exp(IF Is64(a.api) THEN SUCCESS ELSE INVALID_VALUE,
                          [b EXCEPT !.N = c_i32_overflow, !.K = c_i32_overflow,
                                    !.alpha = p.zero, !.A = "nullptr",
                                    !.lda = c_i32_overflow, !.beta = p.one,
                                    !.C = "nullptr", !.ldc = c_i32_overflow,
                                    !.batch_count = c_i32_overflow])>>
            ELSE <<>>)
        \o <<Exp(SUCCESS, With(AllNull("syrk_strided_batched", b), "N", 0)),
             Exp(SUCCESS, With(AllNull("syrk_strided_batched", b), "batch_count", 0))>>

\* testing_syr2k_strided_batched_bad_arg: the invocations of one pointer-mode
\* iteration, in order.
syr2k_bad_arg_calls(p, mode, a) ==
    LET b == syr2k_baseline(p)
    IN  <<Exp(NOT_INITIALIZED, With(b, "handle", "nullptr")),
          Exp(INVALID_VALUE, With(b, "uplo", "HIPBLAS_FILL_MODE_FULL")),
          Exp(INVALID_ENUM, With(b, "uplo", "HIPBLAS_OP_N")),
          Exp(INVALID_ENUM, With(b, "transA", "HIPBLAS_FILL_MODE_FULL"))>>
        \o (IF a.bad_arg_all
            THEN <<Exp(INVALID_VALUE, With(b, "alpha", "nullptr")),
                   Exp(INVALID_VALUE, With(b, "beta", "nullptr"))>>
                 \o (IF mode = HOST
                     THEN <<Exp(INVALID_VALUE, With(b, "A", "nullptr")),
                            Exp(INVALID_VALUE, With(b, "B", "nullptr")),
                            Exp(INVALID_VALUE, With(b, "C", "nullptr"))>>
                     ELSE <<>>)
                 \o <<Exp(SUCCESS, [b EXCEPT !.K = 0, !.A = "nullptr", !.B = "nullptr",
                                             !.beta = p.one, !.C = "nullptr"]),
                      Exp(SUCCESS, [b EXCEPT !.alpha = p.zero, !.A = "nullptr",
                                             !.B = "nullptr", !.beta = p.one,
                                             !.C = "nullptr"]),
                      Exp(IF Is64(a.api) THEN SUCCESS ELSE INVALID_VALUE,
                          [b EXCEPT !.N = c_i32_overflow, !.K = c_i32_overflow,
                                    !.alpha = p.zero, !.A = "nullptr",
                                    !.lda = c_i32_overflow, !.B = "nullptr",
                                    !.ldb = c_i32_overflow, !.beta = p.one,
                                    !.C = "nullptr", !.ldc = c_i32_overflow,
                                    !.batch_count = c_i32_overflow])>>
            ELSE <<>>)
        \o <<Exp(SUCCESS, With(AllNull("syr2k_strided_batched", b), "N", 0)),
             Exp(SUCCESS, With2(AllNull("syr2k_strided_batched", b), "N", 0,
                                "batch_count", 0))>>

BadArgCalls(r, p, mode, a) ==
    CASE r = "hemv" -> hemv_bad_arg_calls(p, mode, a)
      [] r = "geam" -> geam_bad_arg_calls(p, mode, a)
      [] r = "syrk_strided_batched" -> syrk_bad_arg_calls(p, mode, a)
      [] r = "syr2k_strided_batched" -> syr2k_bad_arg_calls(p, mode, a)

BaModes == <<HOST, DEVICE>>

\* Declarations ahead of the pointer-mode loop (in testing_hemv_bad_arg they are made
\* anew inside every iteration, see BaSetPointerMode).
BaSetup ==
    /\ ba.pc = "setup"
    /\ ba' = [ba EXCEPT !.pc = "loop_head", !.m = 1, !.ptr = HostPtrs]
    /\ UNCHANGED <<routine, arg, pc, calls, trace, alloc, hbuf, dbuf, pointer_mode, rng,
                   iter, dispatches, t_start, t_end, errs, failed, logged, fill>>

\* Loop head with a mode left: hipblasSetPointerMode(handle, pointer_mode).
BaSetPointerMode ==
    /\ ba.pc = "loop_head"
    /\ ba.m <= Len(BaModes)
    /\ pointer_mode' = BaModes[ba.m]
    /\ ba' = [ba EXCEPT !.pc = IF BaModes[ba.m] = DEVICE THEN "to_device" ELSE "invoke",
                        !.k = 1,
                        !.ptr = IF routine = "hemv" THEN HostPtrs ELSE @,
                        !.dmem = IF routine = "hemv" THEN NoDevScalars ELSE @]
    /\ UNCHANGED <<routine, arg, pc, calls, trace, alloc, hbuf, dbuf, rng, iter,
                   dispatches, t_start, t_end, errs, failed, logged, fill>>

\* The copy of the scalars to the device without `alpha = d_alpha;` and the like.
BaCopyScalars_norepoint ==
    /\ ba.pc = "to_device"
    /\ ba' = [ba EXCEPT !.pc = "invoke",
                        !.dmem = [d_alpha |-> Deref(ba.ptr.alpha, ba.dmem),
                                  d_beta |-> Deref(ba.ptr.beta, ba.dmem),
                                  d_one |-> IF "one" \in SuiteScalars(routine)
                                            THEN Deref(ba.ptr.one, ba.dmem) ELSE Uninit,
                                  d_zero |-> Deref(ba.ptr.zero, ba.dmem)]]
    /\ UNCHANGED <<routine, arg, pc, calls, trace, alloc, hbuf, dbuf, pointer_mode, rng,
                   iter, dispatches, t_start, t_end, errs, failed, logged, fill>>

\* `if(pointer_mode == DEVICE)`: copy the scalars to the device, repoint the pointers.
BaCopyScalars ==
    /\ ba.pc = "to_device"
    /\ ba' = [ba EXCEPT !.pc = "invoke",
                        !.dmem = [d_alpha |-> Deref(ba.ptr.alpha, ba.dmem),
                                  d_beta |-> Deref(ba.ptr.beta, ba.dmem),
                                  d_one |-> IF "one" \in SuiteScalars(routine)
                                            THEN Deref(ba.ptr.one, ba.dmem) ELSE Uninit,
                                  d_zero |-> Deref(ba.ptr.zero, ba.dmem)],
                        !.ptr = DevPtrs]
    /\ UNCHANGED <<routine, arg, pc, calls, trace, alloc, hbuf, dbuf, pointer_mode, rng,
                   iter, dispatches, t_start, t_end, errs, failed, logged, fill>>

\* The next invocation of the iteration, with the status the suite asserts.
BaInvoke ==
    /\ ba.pc = "invoke"
    /\ ba.k <= Len(BadArgCalls(routine, ba.ptr, pointer_mode, arg))
    /\ LET c == BadArgCalls(routine, ba.ptr, pointer_mode, arg)[ba.k]
       IN  calls' = Append(calls,
                      [args |-> c.args, expect |-> c.expect, mode |-> pointer_mode,
                       alpha_val |-> Deref(c.args.alpha, ba.dmem),
                       beta_val |-> Deref(c.args.beta, ba.dmem),
                       base |-> Baseline(routine, ba.ptr)])
    /\ ba' = [ba EXCEPT !.k = @ + 1]
    /\ UNCHANGED <<routine, arg, pc, trace, alloc, hbuf, dbuf, pointer_mode, rng, iter,
                   dispatches, t_start, t_end, errs, failed, logged, fill>>

\* End of the loop body.
BaNextMode ==
    /\ ba.pc = "invoke"
    /\ ba.k > Len(BadArgCalls(routine, ba.ptr, pointer_mode, arg))
    /\ ba' = [ba EXCEPT !.pc = "loop_head", !.m = @ + 1]
    /\ UNCHANGED <<routine, arg, pc, calls, trace, alloc, hbuf, dbuf, pointer_mode, rng,
                   iter, dispatches, t_start, t_end, errs, failed, logged, fill>>

\* Loop head with no mode left.
BaFinish ==
    /\ ba.pc = "loop_head"
    /\ ba.m > Len(BaModes)
    /\ ba' = [ba EXCEPT !.pc = "done"]
    /\ UNCHANGED <<routine, arg, pc, calls, trace, alloc, hbuf, dbuf, pointer_mode, rng,
                   iter, dispatches, t_start, t_end, errs, failed, logged, fill>>

BadArgNext ==
    \/ BaSetup
    \/ BaSetPointerMode
    \/ BaCopyScalars
    \/ BaInvoke
    \/ BaNextMode
    \/ BaFinish

InitBadArg ==
    \E r \in Routines : \E api \in Apis : \E all \in BOOLEAN :
        /\ routine = r
        /\ arg = [BaseArg EXCEPT !.api = api, !.bad_arg_all = all]
        /\ pc = "idle"
        /\ calls = <<>>
        /\ trace = <<>>
        /\ alloc = NoAlloc
        /\ hbuf = [b \in HostBufs |-> NoData]
        /\ dbuf = [b \in DevBufs |-> NoData]
        /\ pointer_mode = HOST
        /\ rng = RngAtEntry
        /\ iter = 0
        /\ dispatches = 0
        /\ t_start = <<>>
        /\ t_end = <<>>
        /\ errs = [host |-> Uninit, device |-> Uninit]
        /\ failed = FALSE
        /\ logged = <<>>
        /\ ba = [pc |-> "setup", m |-> 1, k |-> 1, ptr |-> HostPtrs, dmem |-> NoDevScalars]
        /\ fill = FillIdle

SpecBadArg == InitBadArg /\ [][BadArgNext]_vars

\* ------------------------------------------------------------------------
\* Claims about the bad-argument suites
\* ------------------------------------------------------------------------
SizeFields ==
    {"M", "N", "K", "lda", "ldb", "ldc", "incx", "incy", "strideA", "strideB", "strideC",
     "batch_count"}
ShapeFields == {"M", "N", "K", "batch_count"}
SuiteDone == ba.pc = "done"
CallIdx == 1 .. Len(calls)

NullPtrs(c) == {f \in ScalarPtrs(routine) \cup DataPtrs(routine) : c.args[f] = "nullptr"}
NullHandle(c) == c.args.handle = "nullptr"
EnumOutside(c) ==
    \/ "uplo" \in DOMAIN c.args /\ c.args.uplo \notin FillModes
    \/ \E f \in {"transA", "transB"} \cap DOMAIN c.args : c.args[f] \notin Operations
ZeroNAllNull(c) ==
    /\ c.args.N = 0
    /\ NullPtrs(c) = ScalarPtrs(routine) \cup DataPtrs(routine)
Overflowing(c) == \E f \in SizeFields \cap DOMAIN c.args : c.args[f] = c_i32_overflow
Diff(c) == {f \in DOMAIN c.args : c.args[f] # c.base[f]}
ZeroDim(c) == \E f \in ShapeFields \cap DOMAIN c.args : c.args[f] = 0
Output == IF routine = "hemv" THEN "y" ELSE "C"
\* The scalar that multiplies an input operand in the routine's formula.
Multiplier(f) == IF routine = "geam" /\ f = "B" THEN "beta" ELSE "alpha"
ScalarVal(c, s) == IF s = "alpha" THEN c.alpha_val ELSE c.beta_val

\* C4 as stated: every invocation with a null handle is asserted NOT_INITIALIZED,
\* every invocation with a fill-mode or transpose value outside its enumeration is
\* asserted INVALID_ENUM, and every invocation with N = 0 and all scalar and data
\* pointers null is asserted SUCCESS.
C4_Original ==
    \A i \in CallIdx :
        /\ NullHandle(calls[i]) => calls[i].expect = NOT_INITIALIZED
        /\ EnumOutside(calls[i]) => calls[i].expect = INVALID_ENUM
        /\ ZeroNAllNull(calls[i]) => calls[i].expect = SUCCESS

\* C4: in every suite and pointer mode, with or without bad_arg_all, a null handle
\* is asserted NOT_INITIALIZED, an out-of-enumeration fill mode or transpose is
\* asserted INVALID_ENUM, and N = 0 with all pointers null is asserted SUCCESS
\* unless the invocation is a 32-bit-interface probe carrying c_i32_overflow; each
\* pointer-mode iteration of a finished suite holds all three kinds of invocation.
C4_HandleEnumZeroN ==
    /\ \A i \in CallIdx :
        /\ NullHandle(calls[i]) => calls[i].expect = NOT_INITIALIZED
        /\ EnumOutside(calls[i]) => calls[i].expect = INVALID_ENUM
        /\ (ZeroNAllNull(calls[i]) /\ ~(Overflowing(calls[i]) /\ ~Is64(arg.api)))
              => calls[i].expect = SUCCESS
    /\ SuiteDone =>
         \A mode \in {HOST, DEVICE} :
            /\ \E i \in CallIdx : calls[i].mode = mode /\ NullHandle(calls[i])
            /\ \E i \in CallIdx : calls[i].mode = mode /\ EnumOutside(calls[i])
            /\ \E i \in CallIdx :
                  calls[i].mode = mode /\ ZeroNAllNull(calls[i]) /\ calls[i].expect = SUCCESS

C4_Witness ==
    /\ SuiteDone
    /\ ~arg.bad_arg_all
    /\ \E i \in CallIdx :
          calls[i].mode = DEVICE /\ ZeroNAllNull(calls[i]) /\ calls[i].expect = SUCCESS
    /\ \E i \in CallIdx : calls[i].mode = DEVICE /\ EnumOutside(calls[i])

\* C5 as stated: every invocation asserted to return an error status differs from
\* the baseline tuple in exactly one argument.
C5_Original ==
    \A i \in CallIdx :
        calls[i].expect # SUCCESS => Cardinality(Diff(calls[i])) = 1

\* geam's probe of C aliased to A with a differing leading dimension.
AliasProbe(c) == routine = "geam" /\ Diff(c) = {"C", "ldc"} /\ c.args.C = "dA"

\* C5: every invocation asserted to return an error status differs from the
\* baseline tuple in exactly one argument, except geam's probe of C aliased to A
\* (C and ldc differ) and the c_i32_overflow probes under a 32-bit interface.
C5_OnePerturbedArgument ==
    \A i \in CallIdx :
        calls[i].expect # SUCCESS =>
            \/ Cardinality(Diff(calls[i])) = 1
            \/ AliasProbe(calls[i])
            \/ Overflowing(calls[i]) /\ ~Is64(arg.api)

C5_Witness ==
    /\ arg.bad_arg_all
    /\ \E i \in CallIdx :
          /\ calls[i].mode = DEVICE
          /\ calls[i].expect = INVALID_VALUE
          /\ Diff(calls[i]) = {"alpha"}
    /\ \E i \in CallIdx :
          /\ calls[i].mode = HOST
          /\ calls[i].expect = INVALID_VALUE
          /\ Diff(calls[i]) \in {{"A"}, {"C"}}

\* The state in which a null pointer cannot influence the result although no shape
\* is zero: no scalar pointer is null, the scalar multiplying each null input is
\* zero, and a null output comes with beta = 1 and alpha = 0 or K = 0.
NullIrrelevant(c) ==
    /\ NullPtrs(c) \cap ScalarPtrs(routine) = {}
    /\ \A f \in NullPtrs(c) \ {Output} : ScalarVal(c, Multiplier(f)) = 0
    /\ Output \in NullPtrs(c) =>
          /\ c.beta_val = 1
          /\ c.alpha_val = 0 \/ ("K" \in DOMAIN c.args /\ c.args.K = 0)

\* C6: every invocation that passes a null operand or scalar pointer and is
\* asserted SUCCESS has a zero dimension or batch count, or has the scalar of each
\* null input equal to zero and, when the output is null, beta = 1 with alpha = 0
\* or K = 0; no invocation with a null pointer in another state is asserted SUCCESS.
C6_NullOnlyWhenIrrelevant ==
    \A i \in CallIdx :
        (calls[i].expect = SUCCESS /\ NullPtrs(calls[i]) # {})
            => ZeroDim(calls[i]) \/ NullIrrelevant(calls[i])

C6_Witness ==
    \E i \in CallIdx :
        /\ calls[i].mode = DEVICE
        /\ calls[i].expect = SUCCESS
        /\ Output \in NullPtrs(calls[i])
        /\ ~ZeroDim(calls[i])
        /\ calls[i].alpha_val = 0
        /\ calls[i].beta_val = 1

\* ------------------------------------------------------------------------
\* Matrix initializers: hipblas_fill_matrix_type and hipblas_init_matrix
\* ------------------------------------------------------------------------
\* Matrix entries are pairs <<real part, imaginary part>>.
Zero == <<0, 0>>
NotWritten == <<Uninit, Uninit>>
hipblas_real(v) == <<v[1], 0>>
hipblas_conjugate(v) == <<v[1], 0 - v[2]>>

\* rand_gen(): the k-th value of the generator's stream, a nonzero number whose
\* imaginary part is nonzero exactly for the complex types.
rand_gen(k, cplx) == <<1 + (k % 10), IF cplx THEN 1 + ((7 * k + 3) % 10) ELSE 0>>

FillFns == {"hipblas_fill_matrix_type", "hipblas_init_matrix"}
MatrixTypes == {"hipblas_hermitian_matrix", "hipblas_symmetric_matrix"}
Uplos == {"U", "L", "*"}

\* Two writes of one loop iteration: A[at1] = v1; A[at2] = v2.
Store2(A, at1, v1, at2, v2) == [[A EXCEPT ![at1] = v1] EXCEPT ![at2] = v2]

fill_symmetric_mirrored(A, base, lda, uplo, i, j, value) ==
    Store2(A, base + j + i * lda, value, base + i + j * lda, value)

\* Body of the hermitian branch's loops for one (i, j), j <= i.
fill_hermitian(A, base, lda, uplo, i, j, value) ==
    IF i = j THEN [A EXCEPT ![base + j + i * lda] = hipblas_real(value)]
    ELSE IF uplo = "U" THEN Store2(A, base + j + i * lda, value, base + i + j * lda, Zero)
    ELSE IF uplo = "L" THEN Store2(A, base + j + i * lda, Zero, base + i + j * lda, value)
    ELSE Store2(A, base + j + i * lda, value, base + i + j * lda, hipblas_conjugate(value))

\* Body of the symmetric branch's loops for one (i, j), j <= i.
fill_symmetric(A, base, lda, uplo, i, j, value) ==
    IF i = j THEN [A EXCEPT ![base + j + i * lda] = value]
    ELSE IF uplo = "U" THEN Store2(A, base + j + i * lda, value, base + i + j * lda, Zero)
    ELSE IF uplo = "L" THEN Store2(A, base + j + i * lda, Zero, base + i + j * lda, value)
    ELSE Store2(A, base + j + i * lda, value, base + i + j * lda, value)

nonFillVars ==
    <<routine, arg, pc, calls, trace, alloc, hbuf, dbuf, pointer_mode, iter, dispatches,
      t_start, t_end, errs, failed, logged, ba>>

\* Entry of the initializer: `for(b = 0; ...`.
FillEnter ==
    /\ fill.pc = "call"
    /\ fill' = [fill EXCEPT !.pc = "batch", !.b = 0]
    /\ UNCHANGED <<nonFillVars, rng>>

\* Head of the batch loop with a batch left: A = A_data + b * stride (hA[batch_index]);
\* the element loops start, or are empty when N = 0.
FillBatch ==
    /\ fill.pc = "batch"
    /\ fill.b < fill.batch_count
    /\ fill' = IF fill.N = 0
               THEN [fill EXCEPT !.b = @ + 1]
               ELSE [fill EXCEPT !.pc = "elem", !.i = 0, !.j = 0]
    /\ UNCHANGED <<nonFillVars, rng>>

\* One iteration of `for(i < N) for(j <= i)`: draw a value, store it.
FillElement ==
    /\ fill.pc = "elem"
    /\ LET value == rand_gen(rng, fill.cplx)
           base == fill.b * fill.stride
           A1 == IF fill.matrix_type = "hipblas_hermitian_matrix"
                 THEN fill_hermitian(fill.A, base, fill.lda, fill.uplo, fill.i, fill.j, value)
                 ELSE fill_symmetric(fill.A, base, fill.lda, fill.uplo, fill.i, fill.j, value)
       IN  fill' = IF fill.j < fill.i
                   THEN [fill EXCEPT !.A = A1, !.j = @ + 1]
                   ELSE IF fill.i + 1 < fill.N
                   THEN [fill EXCEPT !.A = A1, !.i = @ + 1, !.j = 0]
                   ELSE [fill EXCEPT !.A = A1, !.pc = "batch", !.b = @ + 1]
    /\ rng' = rng + 1
    /\ UNCHANGED nonFillVars

\* Head of the batch loop with no batch left: the initializer returns.
FillReturn ==
    /\ fill.pc = "batch"
    /\ fill.b >= fill.batch_count
    /\ fill' = [fill EXCEPT !.pc = "done"]
    /\ UNCHANGED <<nonFillVars, rng>>

FillNext ==
    \/ FillEnter
    \/ FillBatch
    \/ FillElement
    \/ FillReturn

FillLds(N) == (IF N = 0 THEN 1 ELSE N) .. MaxFillN

InitFill ==
    /\ routine = "hemv"
    /\ arg = BaseArg
    /\ pc = "idle"
    /\ calls = <<>>
    /\ trace = <<>>
    /\ alloc = NoAlloc
    /\ hbuf = [b \in HostBufs |-> NoData]
    /\ dbuf = [b \in DevBufs |-> NoData]
    /\ pointer_mode = HOST
    /\ rng \in 0 .. MaxSeed
    /\ iter = 0
    /\ dispatches = 0
    /\ t_start = <<>>
    /\ t_end = <<>>
    /\ errs = [host |-> Uninit, device |-> Uninit]
    /\ failed = FALSE
    /\ logged = <<>>
    /\ ba = BaIdle
    /\ \E fn \in FillFns, mt \in MatrixTypes, uplo \in Uplos, cplx \in BOOLEAN,
          N \in 0 .. MaxFillN, batch_count \in 0 .. MaxFillBatch :
          \E lda \in FillLds(N) :
             fill = [pc |-> "call", fn |-> fn, matrix_type |-> mt, uplo |-> uplo,
                     cplx |-> cplx, N |-> N, lda |-> lda, stride |-> lda * N,
                     batch_count |-> batch_count, b |-> 0, i |-> 0, j |-> 0,
                     A |-> [x \in 0 .. (lda * N * batch_count - 1) |-> NotWritten]]

SpecFill == InitFill /\ [][FillNext]_vars

\* ------------------------------------------------------------------------
\* Claims about the initializers
\* ------------------------------------------------------------------------
FillDone == fill.pc = "done"
FillBatchIdx == 0 .. (fill.batch_count - 1)
FillIdx == 0 .. (fill.N - 1)
\* Entry (r, c) of batch b: column-major with leading dimension lda.
Entry(b, r, c) == fill.A[b * fill.stride + r + c * fill.lda]
Hermitian == fill.matrix_type = "hipblas_hermitian_matrix"
Mirror(v) == IF Hermitian THEN hipblas_conjugate(v) ELSE v
Generated(v) == v[1] >= 1 /\ (fill.cplx => v[2] >= 1)

\* C10 as stated: after the fill, A[i][j] equals A[j][i] (symmetric) or its
\* conjugate (hermitian) for all i, j < N, and hermitian diagonals are real.
C10_Original ==
    FillDone =>
        \A b \in FillBatchIdx : \A r \in FillIdx : \A c \in FillIdx :
            /\ Entry(b, r, c) = Mirror(Entry(b, c, r))
            /\ (Hermitian /\ r = c) => Entry(b, r, r)[2] = 0

\* C10: after a symmetric or hermitian fill the diagonal holds generator values
\* (their real parts when hermitian); with uplo 'U' the strict upper triangle
\* holds generator values and the strict lower triangle T(0), with uplo 'L' the
\* other way round, and only with any other uplo is every entry the copy
\* (symmetric) or conjugate (hermitian) of its mirrored generator value.
C10_SelectedTriangleOtherZero ==
    FillDone =>
        \A b \in FillBatchIdx : \A r \in FillIdx : \A c \in FillIdx :
            /\ r = c =>
                  /\ Entry(b, r, r)[1] >= 1
                  /\ Hermitian => Entry(b, r, r)[2] = 0
                  /\ (~Hermitian /\ fill.cplx) => Entry(b, r, r)[2] >= 1
            /\ (r < c /\ fill.uplo = "U") =>
                  Generated(Entry(b, r, c)) /\ Entry(b, c, r) = Zero
            /\ (r < c /\ fill.uplo = "L") =>
                  Generated(Entry(b, c, r)) /\ Entry(b, r, c) = Zero
            /\ (r < c /\ fill.uplo \notin {"U", "L"}) =>
                  Generated(Entry(b, r, c)) /\ Entry(b, c, r) = Mirror(Entry(b, r, c))

C10_Witness ==
    /\ FillDone
    /\ Hermitian
    /\ fill.cplx
    /\ fill.uplo = "U"
    /\ fill.N = 2
    /\ fill.batch_count = 2
    /\ Generated(Entry(1, 0, 1))
    /\ Entry(1, 1, 0) = Zero

\* ------------------------------------------------------------------------
\* Matrix initializers: the triangular and diagonally dominant branches
\* ------------------------------------------------------------------------
Triangular == "hipblas_triangular_matrix"
DiagDominant == "hipblas_diagonally_dominant_triangular_matrix"

\* Values of type T are held with two decimals, so that T(x * 1.01) is exact.
FixedPoint(v) == <<100 * v[1], 100 * v[2]>>
hipblas_abs(v) == Abs(v[1])

\* `uplo == 'U' ? (j >= i ? rand_gen() : T(0)) : (j <= i ? rand_gen() : T(0))`:
\* whether the entry (i, j) takes a generator value.
InTriangle(uplo, i, j) == IF uplo = "U" THEN j >= i ELSE j <= i

\* The triangular branch of hipblas_fill_matrix_type runs `for(i < M) for(j < N)`,
\* every other branch here `for(j < N) for(i < M)`; the outer loop is the parallel one.
OuterIsRow(f) == f.fn = "hipblas_fill_matrix_type" /\ f.matrix_type = Triangular
OuterCount(f) == IF OuterIsRow(f) THEN f.M ELSE f.N
InnerCount(f) == IF OuterIsRow(f) THEN f.N ELSE f.M

\* The element of A_data an iteration stores to, A being A_data + b * stride:
\* `A[i + j * lda + b * stride]` in hipblas_fill_matrix_type's triangular branch,
\* `A[i + j * lda]` everywhere else.
StoreIndex(f, i, j) ==
    f.b * f.stride + i + j * f.lda + (IF OuterIsRow(f) THEN f.b * f.stride ELSE 0)

RECURSIVE SumAbs(_, _)
SumAbs(A, S) ==
    IF S = {} THEN 0
    ELSE LET k == CHOOSE x \in S : TRUE IN hipblas_abs(A[k]) + SumAbs(A, S \ {k})

dominant_diagonal_rowonly(A, base, lda, N, uplo, d) ==
    LET row == IF uplo = "U"
               THEN SumAbs(A, {base + d + j * lda : j \in (d + 1) .. (N - 1)})
               ELSE SumAbs(A, {base + d + i * lda : i \in 0 .. (d - 1)})
    IN  IF row = 0 THEN <<100, 0>> ELSE <<(row * 101) \div 100, 0>>

\* The value the second pass stores on the diagonal at (d, d): T(1) when the sums
\* of the off-diagonal row and column entries add to zero, otherwise their sum
\* times the multiplier T(1.01).
dominant_diagonal(A, base, lda, N, uplo, d) ==
    LET row == IF uplo = "U"
               THEN SumAbs(A, {base + d + j * lda : j \in (d + 1) .. (N - 1)})
               ELSE SumAbs(A, {base + d + i * lda : i \in 0 .. (d - 1)})
        col == IF uplo = "U"
               THEN SumAbs(A, {base + j + d * lda : j \in 0 .. (d - 1)})
               ELSE SumAbs(A, {base + i + d * lda : i \in (d + 1) .. (N - 1)})
    IN  IF row + col = 0 THEN <<100, 0>> ELSE <<((row + col) * 101) \div 100, 0>>

\* Head of the batch loop with a batch left; the fill loops of the branch start.
TriBatch ==
    /\ fill.pc = "batch"
    /\ fill.b < fill.batch_count
    /\ fill' = [fill EXCEPT !.pc = "elem", !.prog = [o \in 0 .. (OuterCount(fill) - 1) |-> 0]]
    /\ UNCHANGED <<nonFillVars, rng>>

\* One iteration of the fill loops.  Without OpenMP the outer iterations run in
\* order; with it (par) they interleave, each running its inner loop in order.
\* A store outside the buffer is undefined: the run goes on or is killed.
TriElement ==
    /\ fill.pc = "elem"
    /\ \E o \in DOMAIN fill.prog :
        /\ fill.prog[o] < InnerCount(fill)
        /\ fill.par \/ \A o2 \in DOMAIN fill.prog : o2 < o => fill.prog[o2] = InnerCount(fill)
        /\ LET q == fill.prog[o]
               i == IF OuterIsRow(fill) THEN o ELSE q
               j == IF OuterIsRow(fill) THEN q ELSE o
               in == InTriangle(fill.uplo, i, j)
               value == IF in THEN FixedPoint(rand_gen(rng, fill.cplx)) ELSE Zero
               at == StoreIndex(fill, i, j)
               prog1 == [fill.prog EXCEPT ![o] = q + 1]
               last == \A o2 \in DOMAIN prog1 : prog1[o2] = InnerCount(fill)
               pc1 == IF ~last THEN "elem"
                      ELSE IF fill.matrix_type = DiagDominant THEN "diag" ELSE "batch"
               b1 == IF last /\ fill.matrix_type # DiagDominant THEN fill.b + 1 ELSE fill.b
           IN  /\ rng' = IF in THEN rng + 1 ELSE rng
               /\ IF at \in DOMAIN fill.A
                  THEN fill' = [fill EXCEPT !.A[at] = value, !.w = @ \cup {at},
                                            !.prog = prog1, !.pc = pc1, !.b = b1]
                  ELSE \/ fill' = [fill EXCEPT !.w = @ \cup {at}, !.prog = prog1,
                                               !.pc = pc1, !.b = b1]
                       \/ fill' = [fill EXCEPT !.w = @ \cup {at}, !.pc = "crashed"]
    /\ UNCHANGED nonFillVars

\* The second pass of the diagonally dominant branch: every diagonal entry is
\* overwritten from the off-diagonal entries of its row and column.
TriDiagonal ==
    /\ fill.pc = "diag"
    /\ LET base == fill.b * fill.stride
           at(d) == base + d + d * fill.lda
       IN  fill' = [fill EXCEPT
                      !.A = [x \in DOMAIN fill.A |->
                               IF \E d \in 0 .. (fill.N - 1) : x = at(d)
                               THEN dominant_diagonal(fill.A, base, fill.lda, fill.N, fill.uplo,
                                                      CHOOSE d \in 0 .. (fill.N - 1) : x = at(d))
                               ELSE fill.A[x]],
                      !.w = @ \cup {at(d) : d \in 0 .. (fill.N - 1)},
                      !.pc = "batch", !.b = @ + 1]
    /\ UNCHANGED <<nonFillVars, rng>>

\* The diagonally dominant initializer is run a second time on a fresh buffer after
\* the generator is put back to the seed of the first run.
TriRerun ==
    /\ fill.pc = "done"
    /\ fill.matrix_type = DiagDominant
    /\ fill.run = 1
    /\ fill' = [fill EXCEPT !.pc = "call", !.run = 2, !.first = fill.A, !.w = {},
                            !.A = [x \in DOMAIN fill.A |-> NotWritten]]
    /\ rng' = fill.seed
    /\ UNCHANGED nonFillVars

TriNext ==
    \/ FillEnter
    \/ TriBatch
    \/ TriElement
    \/ TriDiagonal
    \/ FillReturn
    \/ TriRerun

InitTri ==
    /\ routine = "hemv"
    /\ arg = BaseArg
    /\ pc = "idle"
    /\ calls = <<>>
    /\ trace = <<>>
    /\ alloc = NoAlloc
    /\ hbuf = [b \in HostBufs |-> NoData]
    /\ dbuf = [b \in DevBufs |-> NoData]
    /\ pointer_mode = HOST
    /\ rng = RngAtEntry
    /\ iter = 0
    /\ dispatches = 0
    /\ t_start = <<>>
    /\ t_end = <<>>
    /\ errs = [host |-> Uninit, device |-> Uninit]
    /\ failed = FALSE
    /\ logged = <<>>
    /\ ba = BaIdle
    /\ \E fn \in FillFns, mt \in {Triangular, DiagDominant}, uplo \in {"U", "L"},
          M \in 1 .. MaxTriN, N \in 1 .. MaxTriN, batch_count \in 0 .. MaxTriBatch,
          par \in BOOLEAN :
          \E lda \in M .. MaxTriN :
             /\ mt = DiagDominant => M = N
             /\ par => batch_count <= 1
             /\ fill = [pc |-> "call", fn |-> fn, matrix_type |-> mt, uplo |-> uplo,
                        cplx |-> FALSE, M |-> M, N |-> N, lda |-> lda, stride |-> lda * N,
                        batch_count |-> batch_count, b |-> 0, i |-> 0, j |-> 0,
                        prog |-> <<>>, par |-> par, run |-> 1, seed |-> RngAtEntry,
                        w |-> {},
                        A |-> [x \in 0 .. (lda * N * batch_count - 1) |-> NotWritten],
                        first |-> [x \in 0 .. (lda * N * batch_count - 1) |-> NotWritten]]

SpecTri == InitTri /\ [][TriNext]_vars

\* ------------------------------------------------------------------------
\* Claims about the triangular and diagonally dominant branches
\* ------------------------------------------------------------------------
TriBatchIdx == 0 .. (fill.batch_count - 1)
TriRows == 0 .. (fill.M - 1)
TriCols == 0 .. (fill.N - 1)
\* Entry (i, j) of the matrix stored at offset b * stride.
TriEntry(b, i, j) == fill.A[b * fill.stride + i + j * fill.lda]
InRegion(k) ==
    \E b \in TriBatchIdx : \E i \in TriRows : \E j \in TriCols :
        k = b * fill.stride + i + j * fill.lda

\* C11: after hipblas_fill_matrix_type on the triangular kind, for every batch
\* b < B the matrix at offset b * stride holds a generator value in every entry of
\* the selected triangle (diagonal included) and zero in every other entry, and no
\* element outside the M x N region of a batch b < B is written.
C11_TriangularEveryBatch ==
    (fill.matrix_type = Triangular /\ fill.fn = "hipblas_fill_matrix_type") =>
        /\ fill.pc # "crashed"
        /\ \A k \in fill.w : InRegion(k)
        /\ FillDone =>
              \A b \in TriBatchIdx : \A i \in TriRows : \A j \in TriCols :
                  IF InTriangle(fill.uplo, i, j)
                  THEN TriEntry(b, i, j)[1] >= 100
                  ELSE TriEntry(b, i, j) = Zero

\* The same property for hipblas_init_matrix's triangular branch, and for the
\* first batch of hipblas_fill_matrix_type.
TriangularWhereOffsetOnce ==
    (fill.matrix_type = Triangular
       /\ (fill.fn = "hipblas_init_matrix" \/ fill.batch_count <= 1)) =>
        /\ fill.pc # "crashed"
        /\ \A k \in fill.w : InRegion(k)
        /\ FillDone =>
              \A b \in TriBatchIdx : \A i \in TriRows : \A j \in TriCols :
                  IF InTriangle(fill.uplo, i, j)
                  THEN TriEntry(b, i, j)[1] >= 100
                  ELSE TriEntry(b, i, j) = Zero

OffDiagonalRow(b, i) == {b * fill.stride + i + j * fill.lda : j \in TriCols \ {i}}
OffDiagonalCol(b, j) == {b * fill.stride + i + j * fill.lda : i \in TriRows \ {j}}

\* C12: after the diagonally dominant initializer on an N x N matrix, every
\* diagonal entry is 1.01 times the sum of the absolute values of the off-diagonal
\* entries of its row and column (1 when that sum is zero), hence at least the
\* off-diagonal sum of its row and at least that of its column, for both fill modes.
C12_DiagonalDominates ==
    (FillDone /\ fill.matrix_type = DiagDominant) =>
        \A b \in TriBatchIdx : \A d \in TriCols :
            LET row == SumAbs(fill.A, OffDiagonalRow(b, d))
                col == SumAbs(fill.A, OffDiagonalCol(b, d))
                diag == TriEntry(b, d, d)
            IN  /\ diag[2] = 0
                /\ 100 * diag[1] = IF row + col = 0 THEN 10000 ELSE 101 * (row + col)
                /\ hipblas_abs(diag) >= row
                /\ hipblas_abs(diag) >= col

C12_Witness ==
    /\ FillDone
    /\ fill.matrix_type = DiagDominant
    /\ fill.N = 2
    /\ fill.batch_count = 2
    /\ fill.uplo = "L"
    /\ fill.fn = "hipblas_fill_matrix_type"
    /\ TriEntry(1, 1, 0)[1] >= 100
    /\ 100 * TriEntry(1, 1, 1)[1] = 101 * TriEntry(1, 1, 0)[1]

\* C13: the diagonally dominant initializer run twice from the same seed yields
\* the same matrix element for element, whatever the interleaving of the
\* iterations of its parallel fill loops.
C13_RerunIdentical ==
    (FillDone /\ fill.matrix_type = DiagDominant /\ fill.run = 2) => fill.A = fill.first

\* Without OpenMP (iterations in loop order) the two runs do agree.
RerunIdenticalInOrder ==
    (FillDone /\ fill.matrix_type = DiagDominant /\ fill.run = 2 /\ ~fill.par)
        => fill.A = fill.first

\* ------------------------------------------------------------------------
\* The batch loops of the initializers
\* ------------------------------------------------------------------------
\* The initializers that take a batch count (hipblas_init_template takes it from
\* the vector it fills).
BatchedInits ==
    {"hipblas_init", "hipblas_init_hpl", "hipblas_init_nan", "hipblas_init_cos",
     "hipblas_init_sin", "hipblas_init_alternating_sign", "hipblas_fill_matrix_type",
     "hipblas_init_matrix_trig", "hipblas_init_template"}

\* cos/sin of a position takes nothing from the generator.
DrawsValue(fn) == fn \notin {"hipblas_init_cos", "hipblas_init_sin", "hipblas_init_matrix_trig"}

batch_loop_dowhile(b, batch_count) == b = 0 \/ b < batch_count

\* `for(b = 0; b < batch_count; b++)`: the test made before every pass of the body.
batch_loop(b, batch_count) == b < batch_count

\* Entry: hipblas_init_template reseeds when asked to; the batch loop starts.
InitEnter ==
    /\ fill.pc = "call"
    /\ rng' = IF fill.fn = "hipblas_init_template" /\ fill.seedReset
              THEN hipblas_seedrand ELSE rng
    /\ fill' = [fill EXCEPT !.pc = "loop", !.b = 0, !.e = 0]
    /\ UNCHANGED nonFillVars

\* One store of the loop nest under the batch loop, element e of batch b
\* (column-major, e = i + j * M), with a draw by the generator-fed initializers.
InitStore ==
    /\ fill.pc = "loop"
    /\ batch_loop(fill.b, fill.batch_count)
    /\ LET i == fill.e % fill.M
           j == fill.e \div fill.M
           at == i + j * fill.lda + fill.b * fill.stride
           last == fill.e + 1 = fill.M * fill.N
       IN  fill' = [fill EXCEPT !.w = @ \cup {at},
                                !.draws = IF DrawsValue(fill.fn) THEN @ + 1 ELSE @,
                                !.e = IF last THEN 0 ELSE @ + 1,
                                !.b = IF last THEN @ + 1 ELSE @]
    /\ rng' = IF DrawsValue(fill.fn) THEN rng + 1 ELSE rng
    /\ UNCHANGED nonFillVars

\* The batch loop's test fails: the initializer returns.
InitReturn ==
    /\ fill.pc = "loop"
    /\ ~batch_loop(fill.b, fill.batch_count)
    /\ fill' = [fill EXCEPT !.pc = "done"]
    /\ UNCHANGED <<nonFillVars, rng>>

BatchedInitNext ==
    \/ InitEnter
    \/ InitStore
    \/ InitReturn

InitBatchedInit ==
    /\ routine = "hemv"
    /\ arg = BaseArg
    /\ pc = "idle"
    /\ calls = <<>>
    /\ trace = <<>>
    /\ alloc = NoAlloc
    /\ hbuf = [b \in HostBufs |-> NoData]
    /\ dbuf = [b \in DevBufs |-> NoData]
    /\ pointer_mode = HOST
    /\ rng = RngAtEntry
    /\ iter = 0
    /\ dispatches = 0
    /\ t_start = <<>>
    /\ t_end = <<>>
    /\ errs = [host |-> Uninit, device |-> Uninit]
    /\ failed = FALSE
    /\ logged = <<>>
    /\ ba = BaIdle
    /\ \E fn \in BatchedInits, seedReset \in BOOLEAN, M \in 1 .. MaxFillN,
          N \in 1 .. MaxFillN, batch_count \in 0 .. MaxFillBatch :
          /\ seedReset => fn = "hipblas_init_template"
          /\ fn = "hipblas_init_template" => M = 1
          /\ fill = [pc |-> "call", fn |-> fn, seedReset |-> seedReset, M |-> M, N |-> N,
                     lda |-> M, stride |-> M * N, batch_count |-> batch_count,
                     b |-> 0, e |-> 0, w |-> {}, draws |-> 0]

SpecBatchedInit == InitBatchedInit /\ [][BatchedInitNext]_vars

\* C14: every initializer called with batch count 0 writes no element of the
\* buffer and draws no value from the generator (and with a positive batch count
\* and shape it has written every element when it returns).
C14_BatchZeroNoWrites ==
    /\ fill.batch_count = 0 => (fill.w = {} /\ fill.draws = 0)
    /\ (fill.pc = "done" /\ fill.batch_count > 0) =>
          fill.w = 0 .. (fill.M * fill.N * fill.batch_count - 1)

C14_Witness ==
    /\ fill.pc = "done"
    /\ fill.batch_count = 0
    /\ fill.fn = "hipblas_init_template"
    /\ fill.seedReset
    /\ rng = hipblas_seedrand
    /\ fill.w = {}

\* ------------------------------------------------------------------------
\* regular_to_banded
\* ------------------------------------------------------------------------
Max2(a, b) == IF a >= b THEN a ELSE b
Min2(a, b) == IF a <= b THEN a ELSE b

banded_column_notop(upper, lda, ldab, n, k, j) ==
    LET min1 == IF upper THEN Max2(0, j - k) ELSE j
        max1 == IF upper THEN j ELSE Min2(n - 1, j + k)
        m == IF upper THEN k - j ELSE 0 - j
        minr == IF upper THEN k + 1 ELSE Min2(k + 1, n - j)
        maxr == ldab - 1
    IN  {[at |-> j * ldab + (m + i), loop |-> "band", from |-> j * lda + i] : i \in min1 .. max1}
        \cup {[at |-> j * ldab + i, loop |-> "bottom", from |-> i - minr] : i \in minr .. maxr}

\* The stores regular_to_banded makes for column j: the band copied from A
\* (from: the element of A), the slots below it filled by hipblas_init and, for
\* upper, the slots above it (from: the number of the draw within the column).
banded_column(upper, lda, ldab, n, k, j) ==
    LET min1 == IF upper THEN Max2(0, j - k) ELSE j
        max1 == IF upper THEN j ELSE Min2(n - 1, j + k)
        m == IF upper THEN k - j ELSE 0 - j
        minr == IF upper THEN k + 1 ELSE Min2(k + 1, n - j)
        maxr == ldab - 1
    IN  {[at |-> j * ldab + (m + i), loop |-> "band", from |-> j * lda + i] : i \in min1 .. max1}
        \cup {[at |-> j * ldab + i, loop |-> "bottom", from |-> i - minr] : i \in minr .. maxr}
        \cup (IF upper
              THEN {[at |-> j * ldab + i, loop |-> "top",
                     from |-> Max2(maxr - minr + 1, 0) + i] : i \in 0 .. (m - 1)}
              ELSE {})

\* The value a store leaves: an element of A, or a value drawn by hipblas_init.
BandValue(w, g) ==
    IF w.loop = "band" THEN [src |-> "A", at |-> w.from] ELSE [src |-> "rand", at |-> g + w.from]
LoopOrder(l) == IF l = "band" THEN 1 ELSE IF l = "bottom" THEN 2 ELSE 3

\* One pass of `for(j = 0; j < n; j++)`.
BandColumn ==
    /\ fill.pc = "band"
    /\ fill.j < fill.n
    /\ LET ws == banded_column(fill.upper, fill.lda, fill.ldab, fill.n, fill.k, fill.j)
           on(x) == {w \in ws : w.at = x}
           final(x) == CHOOSE w \in on(x) : \A w2 \in on(x) : LoopOrder(w2.loop) <= LoopOrder(w.loop)
       IN  /\ fill' = [fill EXCEPT
                         !.AB = [x \in DOMAIN fill.AB |->
                                   IF on(x) = {} THEN fill.AB[x] ELSE BandValue(final(x), rng)],
                         !.cnt = [x \in DOMAIN fill.cnt |-> fill.cnt[x] + Cardinality(on(x))],
                         !.oob = @ \cup {w.at : w \in {v \in ws : v.at \notin DOMAIN fill.AB}},
                         !.j = @ + 1]
           /\ rng' = rng + Cardinality({w \in ws : w.loop # "band"})
    /\ UNCHANGED nonFillVars

\* The column loop ends.
BandReturn ==
    /\ fill.pc = "band"
    /\ fill.j >= fill.n
    /\ fill' = [fill EXCEPT !.pc = "done"]
    /\ UNCHANGED <<nonFillVars, rng>>

BandNext ==
    \/ BandColumn
    \/ BandReturn

InitBand ==
    /\ routine = "hemv"
    /\ arg = BaseArg
    /\ pc = "idle"
    /\ calls = <<>>
    /\ trace = <<>>
    /\ alloc = NoAlloc
    /\ hbuf = [b \in HostBufs |-> NoData]
    /\ dbuf = [b \in DevBufs |-> NoData]
    /\ pointer_mode = HOST
    /\ rng \in 0 .. MaxSeed
    /\ iter = 0
    /\ dispatches = 0
    /\ t_start = <<>>
    /\ t_end = <<>>
    /\ errs = [host |-> Uninit, device |-> Uninit]
    /\ failed = FALSE
    /\ logged = <<>>
    /\ ba = BaIdle
    /\ \E upper \in BOOLEAN, n \in 1 .. MaxBandN, k \in 0 .. MaxBandK :
          \E lda \in n .. (n + 1), ldab \in (k + 1) .. (k + 2) :
             fill = [pc |-> "band", upper |-> upper, n |-> n, k |-> k, lda |-> lda,
                     ldab |-> ldab, j |-> 0,
                     AB |-> [x \in 0 .. (n * ldab - 1) |-> [src |-> "none", at |-> 0]],
                     cnt |-> [x \in 0 .. (n * ldab - 1) |-> 0],
                     oob |-> {}]

SpecBand == InitBand /\ [][BandNext]_vars

\* The in-band rows of column c, and the slot offset m of the column.
BandRows(c) ==
    IF fill.upper THEN Max2(0, c - fill.k) .. c ELSE c .. Min2(fill.n - 1, c + fill.k)
BandShift(c) == IF fill.upper THEN fill.k - c ELSE 0 - c

\* C15: with ldab >= k + 1, every slot AB[j * ldab + r], 0 <= r < ldab, of every
\* converted column j is written exactly once: slot r = m + i of an in-band row i
\* holds A[j * lda + i], every other slot a freshly drawn random value; nothing
\* else is written.
C15_BandedEverySlotOnce ==
    /\ fill.oob = {}
    /\ \A c \in 0 .. (fill.n - 1) : \A r \in 0 .. (fill.ldab - 1) :
          LET x == c * fill.ldab + r
          IN  IF c < fill.j
              THEN /\ fill.cnt[x] = 1
                   /\ IF \E i \in BandRows(c) : r = BandShift(c) + i
                      THEN fill.AB[x] = [src |-> "A", at |-> c * fill.lda + (r - BandShift(c))]
                      ELSE /\ fill.AB[x].src = "rand"
                           /\ \A y \in DOMAIN fill.AB :
                                 (y # x /\ fill.AB[y].src = "rand")
                                     => fill.AB[y].at # fill.AB[x].at
              ELSE fill.cnt[x] = 0 /\ fill.AB[x].src = "none"

C15_Witness ==
    /\ fill.pc = "done"
    /\ fill.upper
    /\ fill.n = 3
    /\ fill.k = 1
    /\ fill.ldab = 3
    /\ fill.AB[0].src = "rand"
    /\ fill.AB[1].src = "A"
    /\ fill.AB[2].src = "rand"
    /\ fill.AB[3] = [src |-> "A", at |-> fill.lda]

\* ------------------------------------------------------------------------
\* regular_to_packed
\* ------------------------------------------------------------------------
inner_continues_nodiag(upper, n, i, j) == IF upper THEN j < i ELSE j < n

\* The inner loops: `for(j = 0; j <= i; j++)` (upper), `for(j = i; j < n; j++)`.
inner_start(upper, i) == IF upper THEN 0 ELSE i
inner_continues(upper, n, i, j) == IF upper THEN j <= i ELSE j < n

PackSlots(n) == (n * (n + 1)) \div 2

\* One pass of the inner loop body, `AP[index++] = A[j + i * n]`, and the loop
\* steps that follow it, up to the next batch.
PackStore ==
    /\ fill.pc = "pack"
    /\ fill.b < fill.batch_count
    /\ LET at == fill.b * (PackSlots(fill.n) + 1) + fill.index
           src == <<fill.b, fill.j + fill.i * fill.n>>
           more == inner_continues(fill.upper, fill.n, fill.i, fill.j + 1)
           i1 == IF more THEN fill.i ELSE fill.i + 1
           j1 == IF more THEN fill.j + 1 ELSE inner_start(fill.upper, fill.i + 1)
           over == i1 >= fill.n
       IN  fill' = [fill EXCEPT !.AP[at] = src,
                                !.cnt[at] = @ + 1,
                                !.order = Append(@, <<fill.j, fill.i>>),
                                !.index = IF over THEN 0 ELSE @ + 1,
                                !.i = IF over THEN 0 ELSE i1,
                                !.j = IF over THEN inner_start(fill.upper, 0) ELSE j1,
                                !.b = IF over THEN @ + 1 ELSE @]
    /\ UNCHANGED <<nonFillVars, rng>>

\* The batch loop ends (the pointer overload converts one matrix).
PackReturn ==
    /\ fill.pc = "pack"
    /\ fill.b >= fill.batch_count
    /\ fill' = [fill EXCEPT !.pc = "done"]
    /\ UNCHANGED <<nonFillVars, rng>>

PackNext ==
    \/ PackStore
    \/ PackReturn

InitPack ==
    /\ routine = "hemv"
    /\ arg = BaseArg
    /\ pc = "idle"
    /\ calls = <<>>
    /\ trace = <<>>
    /\ alloc = NoAlloc
    /\ hbuf = [b \in HostBufs |-> NoData]
    /\ dbuf = [b \in DevBufs |-> NoData]
    /\ pointer_mode = HOST
    /\ rng = RngAtEntry
    /\ iter = 0
    /\ dispatches = 0
    /\ t_start = <<>>
    /\ t_end = <<>>
    /\ errs = [host |-> Uninit, device |-> Uninit]
    /\ failed = FALSE
    /\ logged = <<>>
    /\ ba = BaIdle
    /\ \E upper \in BOOLEAN, n \in 1 .. MaxPackN, batch_count \in 1 .. MaxFillBatch :
          fill = [pc |-> "pack", upper |-> upper, n |-> n, batch_count |-> batch_count,
                  b |-> 0, i |-> 0, j |-> 0, index |-> 0, order |-> <<>>,
                  AP |-> [x \in 0 .. (batch_count * (PackSlots(n) + 1) - 1) |-> <<-1, -1>>],
                  cnt |-> [x \in 0 .. (batch_count * (PackSlots(n) + 1) - 1) |-> 0]]

SpecPack == InitPack /\ [][PackNext]_vars

\* Slot of entry (r, c) when a triangle is laid out column by column, and when
\* the lower triangle is laid out row by row.
UpperByColumn(r, c) == (c * (c + 1)) \div 2 + r
LowerByColumn(n, r, c) == c * n - (c * (c - 1)) \div 2 + (r - c)
LowerByRow(r, c) == (r * (r + 1)) \div 2 + c
Selected(r, c) == IF fill.upper THEN r <= c ELSE r >= c
PackedAt(b, slot) == fill.AP[b * (PackSlots(fill.n) + 1) + slot]
PackCounts ==
    \A b \in 0 .. (fill.batch_count - 1) : \A x \in 0 .. PackSlots(fill.n) :
        fill.cnt[b * (PackSlots(fill.n) + 1) + x] = IF x < PackSlots(fill.n) THEN 1 ELSE 0

\* C16 as stated: exactly the n(n+1)/2 leading slots are written, each once, the
\* upper triangle column by column and the lower triangle row by row, so that
\* unpacking in that order gives back every element of the selected triangle.
C16_Original ==
    fill.pc = "done" =>
        /\ PackCounts
        /\ \A b \in 0 .. (fill.batch_count - 1) :
           \A r \in 0 .. (fill.n - 1) : \A c \in 0 .. (fill.n - 1) :
              Selected(r, c) =>
                  PackedAt(b, IF fill.upper THEN UpperByColumn(r, c) ELSE LowerByRow(r, c))
                      = <<b, r + c * fill.n>>

\* C16: exactly the n(n+1)/2 leading slots are written, each once, the selected
\* triangle (upper or lower) being visited column by column, rows ascending in a
\* column; unpacking in that order gives back every element of the triangle.
C16_PackedByColumn ==
    fill.pc = "done" =>
        /\ PackCounts
        /\ \A b \in 0 .. (fill.batch_count - 1) :
           \A r \in 0 .. (fill.n - 1) : \A c \in 0 .. (fill.n - 1) :
              Selected(r, c) =>
                  PackedAt(b, IF fill.upper THEN UpperByColumn(r, c)
                              ELSE LowerByColumn(fill.n, r, c))
                      = <<b, r + c * fill.n>>
        /\ \A p \in 1 .. (Len(fill.order) - 1) :
              \/ fill.order[p + 1][2] = fill.order[p][2]
                   /\ fill.order[p + 1][1] = fill.order[p][1] + 1
              \/ fill.order[p + 1][2] = fill.order[p][2] + 1
              \/ fill.order[p + 1][2] = 0

C16_Witness ==
    /\ fill.pc = "done"
    /\ ~fill.upper
    /\ fill.n = 3
    /\ fill.batch_count = 2
    /\ PackedAt(1, 2) = <<1, 2>>
    /\ PackedAt(1, 3) = <<1, 4>>

\* ------------------------------------------------------------------------
\* Case tables (dot, tpsv, hpr) and their expansion into cases
\* ------------------------------------------------------------------------
Axis(name, vals) == [name |-> name, vals |-> vals]
Family(name, axes) == [name |-> name, axes |-> axes]
ApiAxis == Axis("api", <<"FORTRAN", "C", "FORTRAN_64", "C_64">>)

tpsv_N_range_withzero == <<-1, 0, 65>>

\* &N_range and &batch_count_range of the three tables.
dot_N_range == <<-1, 0, 1000>>
dot_batch_count_range == <<-1, 0, 5>>
tpsv_N_range == <<-1, 65>>
tpsv_batch_count_range == <<-1, 5>>
hpr_N_range == <<-1, 65>>
hpr_batch_count_range == <<-1, 5>>

dot_incx_incy_range == <<[incx |-> 1, incy |-> 1], [incx |-> -1, incy |-> -2]>>

dot_tests ==
    <<Family("dot_general_nv",
             <<Axis("function", <<"dot", "dotc">>), Axis("N", dot_N_range),
               Axis("incx_incy", dot_incx_incy_range), ApiAxis>>),
      Family("dot_general_amd",
             <<Axis("function", <<"dot">>), Axis("N", dot_N_range),
               Axis("incx_incy", dot_incx_incy_range), ApiAxis>>),
      Family("dot_batched_general",
             <<Axis("function", <<"dot_batched", "dotc_batched">>), Axis("N", dot_N_range),
               Axis("incx_incy", dot_incx_incy_range),
               Axis("batch_count", dot_batch_count_range), ApiAxis>>),
      Family("dot_strided_batched_general",
             <<Axis("function", <<"dot_strided_batched", "dotc_strided_batched">>),
               Axis("N", dot_N_range), Axis("incx_incy", dot_incx_incy_range),
               Axis("batch_count", dot_batch_count_range), Axis("stride_scale", <<"2.5">>),
               ApiAxis>>),
      Family("dot_bad_arg", <<Axis("function", <<"dot_bad_arg", "dotc_bad_arg">>), ApiAxis>>),
      Family("dot_bad_arg",
             <<Axis("function", <<"dot_bad_arg", "dotc_bad_arg">>), ApiAxis,
               Axis("bad_arg_all", <<FALSE>>)>>)>>

tpsv_tests ==
    LET common == <<Axis("transA", <<"N", "T", "C">>), Axis("uplo", <<"L", "U">>),
                    Axis("diag", <<"N", "U">>), Axis("N", tpsv_N_range),
                    Axis("incx", <<-2>>)>>
    IN  <<Family("tpsv_general", <<Axis("function", <<"tpsv">>)>> \o common \o <<ApiAxis>>),
          Family("tpsv_batched_general",
                 <<Axis("function", <<"tpsv_batched">>)>> \o common
                 \o <<Axis("batch_count", tpsv_batch_count_range), ApiAxis>>),
          Family("tpsv_strided_batched_general",
                 <<Axis("function", <<"tpsv_strided_batched">>)>> \o common
                 \o <<Axis("batch_count", tpsv_batch_count_range),
                      Axis("stride_scale", <<"2.5">>), ApiAxis>>),
          Family("tpsv_bad_arg", <<Axis("function", <<"tpsv_bad_arg">>), ApiAxis>>),
          Family("tpsv_bad_arg",
                 <<Axis("function", <<"tpsv_bad_arg">>), ApiAxis,
                   Axis("bad_arg_all", <<FALSE>>)>>)>>

hpr_tests ==
    LET common == <<Axis("uplo", <<"L", "U">>), Axis("alpha", <<"2.0">>),
                    Axis("N", hpr_N_range), Axis("incx", <<-2>>)>>
    IN  <<Family("hpr_general", <<Axis("function", <<"hpr">>)>> \o common \o <<ApiAxis>>),
          Family("hpr_batched_general",
                 <<Axis("function", <<"hpr_batched">>)>> \o common
                 \o <<Axis("batch_count", hpr_batch_count_range), ApiAxis>>),
          Family("hpr_strided_batched_general",
                 <<Axis("function", <<"hpr_strided_batched">>)>> \o common
                 \o <<Axis("batch_count", hpr_batch_count_range),
                      Axis("stride_scale", <<"2.5">>), ApiAxis>>)>>

Tests == dot_tests \o tpsv_tests \o hpr_tests

\* The number of cases of a family: the product of its axes' lengths.
RECURSIVE NumCases(_)
NumCases(axes) == IF axes = <<>> THEN 1 ELSE Len(Head(axes).vals) * NumCases(Tail(axes))

\* The value the k-th case of a family takes on its p-th axis (last axis fastest).
CaseValue(axes, k, p) ==
    LET vals == axes[p].vals
    IN  vals[((k \div NumCases(SubSeq(axes, p + 1, Len(axes)))) % Len(vals)) + 1]

\* The next case of the family's cross product is emitted.
EmitCase ==
    /\ fill.pc = "expand"
    /\ fill.k < NumCases(Tests[fill.t].axes)
    /\ fill' = [fill EXCEPT !.k = @ + 1, !.emitted = @ + 1]
    /\ UNCHANGED <<nonFillVars, rng>>

\* The family is exhausted; the next one, if any, starts.
NextFamily ==
    /\ fill.pc = "expand"
    /\ fill.k >= NumCases(Tests[fill.t].axes)
    /\ fill' = IF fill.t < Len(Tests)
               THEN [fill EXCEPT !.t = @ + 1, !.k = 0]
               ELSE [fill EXCEPT !.pc = "done"]
    /\ UNCHANGED <<nonFillVars, rng>>

TablesNext ==
    \/ EmitCase
    \/ NextFamily

InitTables ==
    /\ routine = "hemv"
    /\ arg = BaseArg
    /\ pc = "idle"
    /\ calls = <<>>
    /\ trace = <<>>
    /\ alloc = NoAlloc
    /\ hbuf = [b \in HostBufs |-> NoData]
    /\ dbuf = [b \in DevBufs |-> NoData]
    /\ pointer_mode = HOST
    /\ rng = RngAtEntry
    /\ iter = 0
    /\ dispatches = 0
    /\ t_start = <<>>
    /\ t_end = <<>>
    /\ errs = [host |-> Uninit, device |-> Uninit]
    /\ failed = FALSE
    /\ logged = <<>>
    /\ ba = BaIdle
    /\ fill = [pc |-> "expand", t |-> 1, k |-> 0, emitted |-> 0]

SpecTables == InitTables /\ [][TablesNext]_vars

\* The family being expanded, its size-like axes, and the case just emitted.
CurFamily == Tests[fill.t]
IsGeneral(f) == f.name \notin {"dot_bad_arg", "tpsv_bad_arg"}
SizeAxes(f) == {p \in 1 .. Len(f.axes) : f.axes[p].name \in {"N", "batch_count"}}
AxisHas(f, p, v) == \E q \in 1 .. Len(f.axes[p].vals) : f.axes[p].vals[q] = v
Positives(f, p) == {q \in 1 .. Len(f.axes[p].vals) : f.axes[p].vals[q] > 0}
IsDot(f) == f.name \in {"dot_general_nv", "dot_general_amd", "dot_batched_general",
                         "dot_strided_batched_general"}

\* C17 as stated: in every general family each size-like axis (N, batch_count)
\* contains both -1 and 0 and exactly one positive value.
C17_Original ==
    IsGeneral(CurFamily) =>
        \A p \in SizeAxes(CurFamily) :
            /\ AxisHas(CurFamily, p, -1)
            /\ AxisHas(CurFamily, p, 0)
            /\ Cardinality(Positives(CurFamily, p)) = 1

\* C17: in every general family each size-like axis contains -1 and exactly one
\* positive value; it contains 0 in the dot families and not in the tpsv and hpr
\* families; every emitted case takes its size from the axis.
C17_SizeAxisEdges ==
    IsGeneral(CurFamily) =>
        /\ SizeAxes(CurFamily) # {}
        /\ \A p \in SizeAxes(CurFamily) :
            /\ AxisHas(CurFamily, p, -1)
            /\ AxisHas(CurFamily, p, 0) <=> IsDot(CurFamily)
            /\ Cardinality(Positives(CurFamily, p)) = 1
            /\ (fill.k > 0) =>
                  LET v == CaseValue(CurFamily.axes, fill.k - 1, p)
                  IN  v = -1 \/ (v = 0 /\ IsDot(CurFamily)) \/ v > 0

C17_Witness ==
    /\ CurFamily.name = "tpsv_batched_general"
    /\ fill.k > 0
    /\ \E p \in SizeAxes(CurFamily) :
          /\ CurFamily.axes[p].name = "batch_count"
          /\ CaseValue(CurFamily.axes, fill.k - 1, p) = 5
    /\ \E p \in SizeAxes(CurFamily) :
          /\ CurFamily.axes[p].name = "N"
          /\ CaseValue(CurFamily.axes, fill.k - 1, p) = -1

\* ------------------------------------------------------------------------
\* Selection of the routine's entry point from the calling convention
\* ------------------------------------------------------------------------
MaxInvokes == 2

Suites == {"driver", "bad_arg"}

\* hipblasXxx<T, FORTRAN> (w64 = FALSE) or hipblasXxx_64<T, FORTRAN> (w64 = TRUE)
EntryPoint(fortran, w64) == [fortran |-> fortran, w64 |-> w64]

NoEntry == [fortran |-> FALSE, w64 |-> FALSE, none |-> TRUE]

\* auto hipblasXxxFn = arg.api == FORTRAN ? hipblasXxx<T, true> : hipblasXxx<T, false>;
SelectFn(r, api) == EntryPoint(api = "FORTRAN", FALSE)

\* auto hipblasXxxFn_64 = arg.api == FORTRAN_64 ? hipblasXxx_64<T, true>
\*                                              : hipblasXxx_64<T, false>;
\* testing_hemv and testing_hemv_bad_arg declare no such pointer.
SelectFn_64(r, api) ==
    IF r = "hemv" THEN NoEntry ELSE EntryPoint(api = "FORTRAN_64", TRUE)

\* The entry point a call site reaches: hemv calls hipblasHemvFn directly, the
\* other routines go through DAPI_CHECK / DAPI_EXPECT / DAPI_DISPATCH, which
\* take the _64 pointer when arg.api & c_API_64.
Dispatched(r, api, Fn, Fn_64) ==
    IF r = "hemv" THEN Fn
    ELSE IF Is64(api) THEN Fn_64 ELSE Fn

DispatchSelect ==
    /\ fill.pc = "entry"
    /\ fill' = [fill EXCEPT !.pc = "invoke",
                            !.Fn = SelectFn(routine, arg.api),
                            !.Fn_64 = SelectFn_64(routine, arg.api)]
    /\ UNCHANGED <<nonFillVars, rng>>

DispatchInvoke ==
    /\ fill.pc = "invoke"
    /\ Len(fill.entered) < MaxInvokes
    /\ fill' = [fill EXCEPT !.entered =
                    Append(@, Dispatched(routine, arg.api, fill.Fn, fill.Fn_64))]
    /\ UNCHANGED <<nonFillVars, rng>>

DispatchReturn ==
    /\ fill.pc = "invoke"
    /\ Len(fill.entered) >= 1
    /\ fill' = [fill EXCEPT !.pc = "done"]
    /\ UNCHANGED <<nonFillVars, rng>>

DispatchNext == DispatchSelect \/ DispatchInvoke \/ DispatchReturn

InitDispatch ==
    /\ routine \in Routines
    /\ \E api \in Apis : arg = [BaseArg EXCEPT !.api = api]
    /\ pc = "idle"
    /\ calls = <<>>
    /\ trace = <<>>
    /\ alloc = NoAlloc
    /\ hbuf = [b \in HostBufs |-> NoData]
    /\ dbuf = [b \in DevBufs |-> NoData]
    /\ pointer_mode = HOST
    /\ rng = RngAtEntry
    /\ iter = 0
    /\ dispatches = 0
    /\ t_start = <<>>
    /\ t_end = <<>>
    /\ errs = [host |-> Uninit, device |-> Uninit]
    /\ failed = FALSE
    /\ logged = <<>>
    /\ ba = BaIdle
    /\ \E s \in Suites :
          fill = [pc |-> "entry", suite |-> s, Fn |-> NoEntry, Fn_64 |-> NoEntry,
                  entered |-> <<>>]

SpecDispatch == InitDispatch /\ [][DispatchNext]_vars

IsFortran(api) == api \in {"FORTRAN", "FORTRAN_64"}

\* C18: in every driver and bad-argument suite each of the four conventions
\* reaches its own entry point: the Fortran or C variant according to the
\* convention and the 32-bit or 64-bit variant according to the width.
C18_EntryPerConvention ==
    \A k \in 1 .. Len(fill.entered) :
        fill.entered[k] = EntryPoint(IsFortran(arg.api), Is64(arg.api))

\* The same for the routines whose call sites go through the width dispatch.
EntryPerConventionExceptHemv ==
    routine # "hemv" => C18_EntryPerConvention

\* hemv reaches the 32-bit C entry point for C, C_64 and FORTRAN_64 alike.
HemvTwoEntryPoints ==
    (routine = "hemv" /\ Len(fill.entered) >= 1)
        => fill.entered[1] = EntryPoint(arg.api = "FORTRAN", FALSE)

\* ------------------------------------------------------------------------
\* Driver runs entered with the generator in different states
\* ------------------------------------------------------------------------
MaxRngEntry == 3

RngEntries == 0 .. MaxRngEntry

ReseedArgs(r) ==
    {[a EXCEPT !.batch_count = bc] :
        a \in {x \in RunArgsSet(r) :
                  x.a_type = "f32_c" /\ x.api = "C" /\ x.stride_scale = 1},
        bc \in 1 .. MaxBatch}

InitReseed ==
    \E r \in Routines : \E a \in ReseedArgs(r) : \E g \in RngEntries : DriverInitAt(r, a, g)

SpecReseed == InitReseed /\ [][DriverNext]_vars

\* Values drawn by the initialization calls before the k-th one.
RECURSIVE DrawsBefore(_, _)
DrawsBefore(cs, k) ==
    IF k <= 1 THEN 0
    ELSE DrawsBefore(cs, k - 1) + cs[k - 1].rows * cs[k - 1].cols * cs[k - 1].batch

General == "hipblas_general_matrix"

ReprKinds == {General, Triangular}

\* rand_int, hpl and trig_float are arg.initialization; NaN is the case
\* `nan_init == hipblas_client_alpha_sets_nan && hipblas_isnan(arg.alpha)`.
ReprModes == {"rand_int", "hpl", "trig_float", "NaN"}

\* A stored value: the generator it came from and the generator's input (the
\* position in the random stream, or the argument of cos / sin).
Val(gen, k) == [gen |-> gen, k |-> k]

Unwritten == Val("unwritten", 0)

TZero == Val("T(0)", 0)

Store(at, v) == [at |-> at, v |-> v]

\* The buffer after a set of stores; two stores to one element carry the same value here.
ApplyStores(A, ws) ==
    [p \in DOMAIN A |->
        IF \E w \in ws : w.at = p THEN (CHOOSE w \in ws : w.at = p).v ELSE A[p]]

OutOfBuffer(A, ws) == \E w \in ws : w.at \notin DOMAIN A

\* Position of (i, j) among the draws of `for(i < M) for(j < N)` restricted to the triangle.
TriRank(uplo, M, N, i, j) ==
    Cardinality({q \in (0 .. M - 1) \X (0 .. N - 1) :
                    /\ InTriangle(uplo, q[1], q[2])
                    /\ (q[1] < i \/ (q[1] = i /\ q[2] < j))})

\* hipblas_fill_matrix_type, general and triangular branches: the stores and the draws made.
\*   T* A = A_data + b * stride;
\*   general:     A[i + j * lda] = rand_gen();             (for j, for i)
\*   triangular:  A[i + j * lda + b * stride] = value;     (for i, for j)
hipblas_fill_matrix_type(matrix_type, uplo, gen, g, M, N, lda, stride, batch_count) ==
    IF matrix_type = General
    THEN [ws |-> {Store(b * stride + i + j * lda, Val(gen, g + b * M * N + j * M + i)) :
                     b \in 0 .. batch_count - 1, i \in 0 .. M - 1, j \in 0 .. N - 1},
          rng |-> IF batch_count > 0 THEN g + batch_count * M * N ELSE g]
    ELSE LET per == TriRank(uplo, M, N, M, 0)
         IN  [ws |-> {Store(b * stride + i + j * lda + b * stride,
                            IF InTriangle(uplo, i, j)
                            THEN Val(gen, g + b * per + TriRank(uplo, M, N, i, j))
                            ELSE TZero) :
                         b \in 0 .. batch_count - 1, i \in 0 .. M - 1, j \in 0 .. N - 1},
              rng |-> IF batch_count > 0 THEN g + batch_count * per ELSE g]

Trig(use_cosine, x) == Val(IF use_cosine THEN "cos" ELSE "sin", x)

\* hipblas_init_matrix_trig(matrix_type, uplo, A, M, N, lda, stride, batch_count, use_cosine)
hipblas_init_matrix_trig(matrix_type, uplo, M, N, lda, stride, batch_count, use_cosine) ==
    {Store(i + j * lda + b * stride,
           IF matrix_type = General \/ InTriangle(uplo, i, j)
           THEN Trig(use_cosine, i + j * lda + b * stride)
           ELSE TZero) :
        b \in 0 .. batch_count - 1, i \in 0 .. M - 1, j \in 0 .. N - 1}

\* hipblas_init_matrix_type without its `if(seedReset) hipblas_seedrand();`.
hipblas_init_matrix_type_noreseed(matrix_type, uplo, mode, g, M, N, lda, stride_A, batch_count, seedReset) ==
    IF mode = "NaN"
    THEN hipblas_fill_matrix_type(matrix_type, uplo, "random_nan_generator", g,
                                  M, N, lda, stride_A, batch_count)
    ELSE IF mode = "hpl"
    THEN hipblas_fill_matrix_type(matrix_type, uplo, "random_hpl_generator", g,
                                  M, N, lda, stride_A, batch_count)
    ELSE IF mode = "rand_int"
    THEN hipblas_fill_matrix_type(matrix_type, uplo, "random_generator", g,
                                  M, N, lda, stride_A, batch_count)
    ELSE [ws |-> hipblas_init_matrix_trig(matrix_type, uplo,
                                          IF seedReset THEN 1 ELSE 0, M, N, lda,
                                          stride_A, batch_count # 0),
          rng |-> g]

\* hipblas_init_matrix_type without alternating_sign. Its trig_float branch is
\*   hipblas_init_matrix_trig<T>(matrix_type, arg.uplo, hA, seedReset, M, N, lda,
\*                               stride_A, batch_count);
\* which binds seedReset to the callee's M, M to N, N to lda, lda to stride,
\* stride_A to batch_count and batch_count to use_cosine.
hipblas_init_matrix_type(matrix_type, uplo, mode, g, M, N, lda, stride_A, batch_count, seedReset) ==
    LET g0 == IF seedReset THEN hipblas_seedrand ELSE g
    IN  IF mode = "NaN"
        THEN hipblas_fill_matrix_type(matrix_type, uplo, "random_nan_generator", g0,
                                      M, N, lda, stride_A, batch_count)
        ELSE IF mode = "hpl"
        THEN hipblas_fill_matrix_type(matrix_type, uplo, "random_hpl_generator", g0,
                                      M, N, lda, stride_A, batch_count)
        ELSE IF mode = "rand_int"
        THEN hipblas_fill_matrix_type(matrix_type, uplo, "random_generator", g0,
                                      M, N, lda, stride_A, batch_count)
        ELSE [ws |-> hipblas_init_matrix_trig(matrix_type, uplo,
                                              IF seedReset THEN 1 ELSE 0, M, N, lda,
                                              stride_A, batch_count # 0),
              rng |-> g0]

\* hipblas_init_matrix(host_batch_vector&, ...): one iteration of
\*   for(b < hA.batch_count()) hipblas_init_matrix_type(matrix_type, hA[b], arg, M, N, lda,
\*                                                      0, 1, nan_init, seed_reset && b == 0, ...)
ReprBatched ==
    /\ fill.pc = "batched"
    /\ fill.b < fill.batch_count
    /\ LET r == hipblas_init_matrix_type(fill.matrix_type, fill.uplo, fill.mode, rng,
                                         fill.M, fill.N, fill.lda, 0, 1,
                                         fill.seedReset /\ fill.b = 0)
       IN  /\ fill' = [fill EXCEPT !.bat[fill.b] = ApplyStores(@, r.ws),
                                   !.oob = @ \/ OutOfBuffer(fill.bat[fill.b], r.ws),
                                   !.b = @ + 1]
           /\ rng' = r.rng
    /\ UNCHANGED nonFillVars

\* The second run starts from the same seed as the first.
ReprRestart ==
    /\ fill.pc = "batched"
    /\ fill.b >= fill.batch_count
    /\ fill' = [fill EXCEPT !.pc = "strided"]
    /\ rng' = fill.seed
    /\ UNCHANGED nonFillVars

\* hipblas_init_matrix_type on the strided buffer. A store outside the buffer
\* is undefined: the run goes on without it or ends there.
ReprStrided ==
    /\ fill.pc = "strided"
    /\ LET r == hipblas_init_matrix_type(fill.matrix_type, fill.uplo, fill.mode, rng,
                                         fill.M, fill.N, fill.lda, fill.stride,
                                         fill.batch_count, fill.seedReset)
           out == OutOfBuffer(fill.str, r.ws)
       IN  /\ \E next \in (IF out THEN {"done", "crashed"} ELSE {"done"}) :
                 fill' = [fill EXCEPT !.str = ApplyStores(@, r.ws),
                                      !.oob = @ \/ out,
                                      !.pc = next]
           /\ rng' = r.rng
    /\ UNCHANGED nonFillVars

ReprNext == ReprBatched \/ ReprRestart \/ ReprStrided

InitRepr ==
    /\ routine = "hemv"
    /\ arg = BaseArg
    /\ pc = "idle"
    /\ calls = <<>>
    /\ trace = <<>>
    /\ alloc = NoAlloc
    /\ hbuf = [b \in HostBufs |-> NoData]
    /\ dbuf = [b \in DevBufs |-> NoData]
    /\ pointer_mode = HOST
    /\ iter = 0
    /\ dispatches = 0
    /\ t_start = <<>>
    /\ t_end = <<>>
    /\ errs = [host |-> Uninit, device |-> Uninit]
    /\ failed = FALSE
    /\ logged = <<>>
    /\ ba = BaIdle
    /\ \E mt \in ReprKinds, mode \in ReprModes, M \in 1 .. MaxFillN, N \in 1 .. MaxFillN,
          B \in 1 .. MaxFillBatch, pad \in 0 .. 1, sr \in BOOLEAN, seed \in 0 .. MaxSeed :
        \E lda \in M .. MaxFillN :
        \E uplo \in (IF mt = General THEN {"U"} ELSE {"U", "L"}) :
          /\ rng = seed
          /\ fill = [pc |-> "batched", matrix_type |-> mt, uplo |-> uplo, mode |-> mode,
                     M |-> M, N |-> N, lda |-> lda, stride |-> lda * N + pad,
                     batch_count |-> B, seedReset |-> sr, seed |-> seed, b |-> 0,
                     oob |-> FALSE,
                     bat |-> [b \in 0 .. B - 1 |-> [p \in 0 .. lda * N - 1 |-> Unwritten]],
                     str |-> [p \in 0 .. (lda * N + pad) * B - 1 |-> Unwritten]]

SpecRepr == InitRepr /\ [][ReprNext]_vars

\* Both representations hold the same stored value at the logical position (b, i, j).
SameAt(b, i, j) ==
    fill.bat[b][i + j * fill.lda] = fill.str[b * fill.stride + i + j * fill.lda]

SameEverywhere ==
    \A b \in 0 .. fill.batch_count - 1, i \in 0 .. fill.M - 1, j \in 0 .. fill.N - 1 :
        SameAt(b, i, j)

StoredEverywhere ==
    \A b \in 0 .. fill.batch_count - 1, i \in 0 .. fill.M - 1, j \in 0 .. fill.N - 1 :
        fill.bat[b][i + j * fill.lda] # Unwritten

\* C20: from the same seed, matrix kind, shape, leading dimension and mode,
\* the independently-batched buffers and the strided buffer hold the same
\* value at every logical position (b, i, j), b < B.
C20_SameValueEveryPosition ==
    fill.pc = "done" => SameEverywhere

\* The two agree for general matrices filled from a random generator ...
GeneralDrawnSame ==
    (fill.pc = "done" /\ fill.matrix_type = General /\ fill.mode # "trig_float")
        => (SameEverywhere /\ StoredEverywhere /\ ~fill.oob)

\* ... and for a single triangular matrix, where the batch offset is zero.
TriangularSingleSame ==
    (fill.pc = "done" /\ fill.matrix_type = Triangular /\ fill.mode # "trig_float"
        /\ fill.batch_count = 1)
        => (SameEverywhere /\ StoredEverywhere /\ ~fill.oob)

\* In trig_float mode the batched path stores nothing at all.
TrigBatchedStoresNothing ==
    fill.mode = "trig_float"
        => \A b \in DOMAIN fill.bat : \A p \in DOMAIN fill.bat[b] : fill.bat[b][p] = Unwritten

\* ------------------------------------------------------------------------
\* The generator across one call of an initialization path
\* ------------------------------------------------------------------------
\* The paths that store cos / sin of a position. The flag is init_cos for
\* hipblas_init_trig, use_cosine or seedReset for the others that take one.
TrigPaths ==
    {"hipblas_init_cos", "hipblas_init_sin", "hipblas_init_trig",
     "hipblas_init_matrix_trig", "hipblas_init_matrix_trig(hA)", "hipblas_init_vector_trig"}

\* The generator after one of TrigPaths: none of their bodies calls a
\* generator or hipblas_seedrand.
trig_path_rng(path, flag, g) == g

\* A call of one of TrigPaths on n elements.
TrigPathCall ==
    /\ fill.pc = "call"
    /\ fill.path \in TrigPaths
    /\ rng' = trig_path_rng(fill.path, fill.flag, rng)
    /\ fill' = [fill EXCEPT !.pc = "done"]
    /\ UNCHANGED nonFillVars

\* A call of hipblas_init_matrix_type on one general M x 1 matrix.
MatrixTypeCall ==
    /\ fill.pc = "call"
    /\ fill.path = "hipblas_init_matrix_type"
    /\ rng' = hipblas_init_matrix_type(General, "U", fill.mode, rng, fill.n, 1, fill.n,
                                       fill.n, 1, fill.flag).rng
    /\ fill' = [fill EXCEPT !.pc = "done"]
    /\ UNCHANGED nonFillVars

PathsNext == TrigPathCall \/ MatrixTypeCall

InitPaths ==
    /\ routine = "hemv"
    /\ arg = BaseArg
    /\ pc = "idle"
    /\ calls = <<>>
    /\ trace = <<>>
    /\ alloc = NoAlloc
    /\ hbuf = [b \in HostBufs |-> NoData]
    /\ dbuf = [b \in DevBufs |-> NoData]
    /\ pointer_mode = HOST
    /\ iter = 0
    /\ dispatches = 0
    /\ t_start = <<>>
    /\ t_end = <<>>
    /\ errs = [host |-> Uninit, device |-> Uninit]
    /\ failed = FALSE
    /\ logged = <<>>
    /\ ba = BaIdle
    /\ \E path \in TrigPaths \cup {"hipblas_init_matrix_type"}, mode \in ReprModes,
          flag \in BOOLEAN, n \in 1 .. MaxFillN, g \in RngEntries :
          /\ path \in TrigPaths => mode = "trig_float"
          /\ path \in {"hipblas_init_cos", "hipblas_init_sin"} => ~flag
          /\ rng = g
          /\ fill = [pc |-> "call", path |-> path, mode |-> mode, flag |-> flag, n |-> n,
                     entry |-> g]

SpecPaths == InitPaths /\ [][PathsNext]_vars

TrigCallDone == fill.pc = "done" /\ fill.mode = "trig_float"

\* C21 as stated: every trigonometric path returns with the generator as it found it.
C21_Original ==
    TrigCallDone => rng = fill.entry

\* C21: the trigonometric paths draw nothing, and leave the generator as they
\* found it except hipblas_init_matrix_type with seedReset, which puts it back
\* at its seed; the random, HPL and NaN modes advance it by one per element.
C21_TrigNeverDraws ==
    /\ TrigCallDone =>
          rng = (IF fill.path = "hipblas_init_matrix_type" /\ fill.flag
                 THEN hipblas_seedrand ELSE fill.entry)
    /\ (fill.pc = "done" /\ fill.mode # "trig_float") =>
          rng = (IF fill.flag THEN hipblas_seedrand ELSE fill.entry) + fill.n

\* hipblas_init_matrix_type in trig_float mode with seedReset has returned
\* from an entry state other than the seed.
C21_Witness ==
    /\ TrigCallDone
    /\ fill.path = "hipblas_init_matrix_type"
    /\ fill.flag
    /\ fill.entry # hipblas_seedrand
    /\ rng = hipblas_seedrand

\* ------------------------------------------------------------------------
\* The tolerance table and the comparison against it
\* ------------------------------------------------------------------------
MaxNearN == 2

Precisions == {"f16_r", "bf16_r", "f32_r", "f64_r", "f32_c", "f64_c"}

\* Exact values are fractions <<numerator, denominator>>.
Frac(n, d) == <<n, d>>

FracLeq(a, b) == a[1] * b[2] <= b[1] * a[2]

FracEq(a, b) == a[1] * b[2] = b[1] * a[2]

\* error_tolerance is held in units of 1e-9, the last digit of the literal 0.000061035.
tolerance_units == 1000000000

\* 2^14: the smallest positive normal half-precision value is 1 / 2^14.
half_min_normal_inverse == 16384

abs_error(T) == Frac(error_tolerance(T), tolerance_units)

\* The errors a comparison meets: none, and powers of two around 2^-14.
NearErrors ==
    {Frac(0, 1), Frac(1, 2 * half_min_normal_inverse), Frac(1, half_min_normal_inverse),
     Frac(2, half_min_normal_inverse)}

\* `abs_error = error_tolerance<T>` is read for the case's precision.
NearTolerance ==
    /\ fill.pc = "tolerance"
    /\ fill' = [fill EXCEPT !.pc = "compare", !.abs_error = abs_error(fill.T)]
    /\ UNCHANGED <<nonFillVars, rng>>

\* One element is compared: it fails when its error exceeds the tolerance.
NearCompare ==
    /\ fill.pc = "compare"
    /\ fill.k <= Len(fill.err)
    /\ fill' = [fill EXCEPT !.k = @ + 1,
                            !.failed = @ \/ ~FracLeq(fill.err[fill.k], fill.abs_error)]
    /\ UNCHANGED <<nonFillVars, rng>>

NearReturn ==
    /\ fill.pc = "compare"
    /\ fill.k > Len(fill.err)
    /\ fill' = [fill EXCEPT !.pc = "done"]
    /\ UNCHANGED <<nonFillVars, rng>>

NearNext == NearTolerance \/ NearCompare \/ NearReturn

NearInputs == UNION {[1 .. n -> NearErrors] : n \in 1 .. MaxNearN}

InitNear ==
    /\ routine = "hemv"
    /\ arg = BaseArg
    /\ pc = "idle"
    /\ calls = <<>>
    /\ trace = <<>>
    /\ alloc = NoAlloc
    /\ hbuf = [b \in HostBufs |-> NoData]
    /\ dbuf = [b \in DevBufs |-> NoData]
    /\ pointer_mode = HOST
    /\ rng = RngAtEntry
    /\ iter = 0
    /\ dispatches = 0
    /\ t_start = <<>>
    /\ t_end = <<>>
    /\ errs = [host |-> Uninit, device |-> Uninit]
    /\ failed = FALSE
    /\ logged = <<>>
    /\ ba = BaIdle
    /\ \E T \in Precisions, err \in NearInputs :
          fill = [pc |-> "tolerance", T |-> T, err |-> err, k |-> 1,
                  abs_error |-> Frac(0, 1), failed |-> FALSE]

SpecNear == InitNear /\ [][NearNext]_vars

\* C22: the tolerance read for half precision is exactly 2^-14 and the
\* tolerance read for every other precision is exactly 0.
C22_HalfToleranceIsMinNormal ==
    fill.pc # "tolerance" =>
        FracEq(fill.abs_error,
               IF fill.T = "f16_r" THEN Frac(1, half_min_normal_inverse) ELSE Frac(0, 1))

\* The tolerance of every precision but half is exactly 0 ...
OtherTolerancesZero ==
    (fill.pc # "tolerance" /\ fill.T # "f16_r") => FracEq(fill.abs_error, Frac(0, 1))

\* ... and the half tolerance lies strictly between 2^-15 and 2^-14, so that
\* an error of exactly 2^-14 fails the comparison.
HalfToleranceBelowMinNormal ==
    (fill.pc = "done" /\ fill.T = "f16_r") =>
        /\ FracLeq(Frac(1, 2 * half_min_normal_inverse), fill.abs_error)
        /\ ~FracLeq(Frac(1, half_min_normal_inverse), fill.abs_error)
        /\ (fill.failed <=>
               \E k \in 1 .. Len(fill.err) :
                   FracLeq(Frac(1, half_min_normal_inverse), fill.err[k]))

\* ------------------------------------------------------------------------
\* hipblas_init_matrix_type in trig_float mode (SpecRepr, the strided buffer)
\* ------------------------------------------------------------------------
TrigFloatReturned ==
    fill.pc = "done" /\ fill.mode = "trig_float" /\ fill.matrix_type = General

\* The offsets i + j*lda + b*stride_A of the matrix elements.
ElementOffsets ==
    {i + j * fill.lda + b * fill.stride :
        b \in 0 .. fill.batch_count - 1, i \in 0 .. fill.M - 1, j \in 0 .. fill.N - 1}

\* C23: in trig_float mode hipblas_init_matrix_type stores at every element
\* offset i + j*lda + b*stride_A the cosine of that offset when seedReset is
\* true and its sine when seedReset is false, and stores nowhere else.
C23_TrigFloatWritesEveryElement ==
    TrigFloatReturned =>
        \A p \in DOMAIN fill.str :
            fill.str[p] = (IF p \in ElementOffsets THEN Trig(fill.seedReset, p) ELSE Unwritten)

\* What the call stores: nothing when seedReset is false; when it is true the
\* cosine at the offsets j*N + b*lda, j < M, b < stride_A, that lie in the buffer.
TrigFloatStoresAsBound ==
    (fill.pc \in {"done", "crashed"} /\ fill.mode = "trig_float"
        /\ fill.matrix_type = General) =>
        \A p \in DOMAIN fill.str :
            fill.str[p] =
                (IF fill.seedReset
                    /\ \E j \in 0 .. fill.M - 1, b \in 0 .. fill.stride - 1 :
                          p = j * fill.N + b * fill.lda
                 THEN Val("cos", p) ELSE Unwritten)

\* ------------------------------------------------------------------------
\* Order of the comparators in a driver run (SpecRuns)
\* ------------------------------------------------------------------------
UnitSteps == {"unit_check_host", "unit_check_device"}

NormSteps == {"norm_check_host", "norm_check_device"}

\* The step s has been taken before position p of the trace.
Before(s, p) == \E q \in 1 .. p - 1 : trace[q] = s

\* C24: with unit_check and norm_check both enabled, every norm check is
\* preceded by both unit checks, and every comparator by both copies of the
\* device result to the host and by the reference run.
C24_UnitChecksThenNormChecks ==
    \A p \in 1 .. Len(trace) :
        /\ (arg.unit_check /\ arg.norm_check /\ trace[p] \in NormSteps) =>
               \A u \in UnitSteps : Before(u, p)
        /\ trace[p] \in UnitSteps \cup NormSteps =>
               (Before("host_back", p) /\ Before("device_back", p) /\ Before("reference", p))

\* A run with both flags enabled has made all four comparisons.
C24_Witness ==
    /\ arg.unit_check
    /\ arg.norm_check
    /\ Len(trace) >= 4
    /\ SubSeq(trace, Len(trace) - 3, Len(trace))
          = <<"unit_check_host", "unit_check_device", "norm_check_host", "norm_check_device">>

\* ------------------------------------------------------------------------
\* Zero sizes with null pointers in the strided-batched suites (SpecBadArg)
\* ------------------------------------------------------------------------
AllPtrsNull(c) == NullPtrs(c) = ScalarPtrs(routine) \cup DataPtrs(routine)

\* An invocation of the given mode asserted SUCCESS with all pointers null.
NullSuccess(i, mode) ==
    calls[i].mode = mode /\ calls[i].expect = SUCCESS /\ AllPtrsNull(calls[i])

ZeroBatchOnly(i) == calls[i].args.batch_count = 0 /\ calls[i].args.N > 0

ZeroNOnly(i) == calls[i].args.N = 0 /\ calls[i].args.batch_count > 0

ZeroNAndBatch(i) == calls[i].args.N = 0 /\ calls[i].args.batch_count = 0

\* C25 as stated: both strided-batched suites assert SUCCESS, in both pointer
\* modes, for batch_count = 0 with N > 0 and for N = 0 with batch_count > 0.
C25_Original ==
    (SuiteDone /\ routine \in Strided) =>
        \A mode \in {HOST, DEVICE} :
            /\ \E i \in CallIdx : NullSuccess(i, mode) /\ ZeroBatchOnly(i)
            /\ \E i \in CallIdx : NullSuccess(i, mode) /\ ZeroNOnly(i)

\* C25: in both pointer modes each strided-batched suite asserts SUCCESS for
\* N = 0, batch_count > 0 with all pointers null; the syrk suite also for
\* batch_count = 0, N > 0, while the syr2k suite's zero-batch invocation has
\* N = 0 as well and the suite never passes batch_count = 0 with N > 0.
C25_ZeroSizesNullPointers ==
    /\ (SuiteDone /\ routine \in Strided) =>
          \A mode \in {HOST, DEVICE} :
              /\ \E i \in CallIdx : NullSuccess(i, mode) /\ ZeroNOnly(i)
              /\ routine = "syrk_strided_batched" =>
                     \E i \in CallIdx : NullSuccess(i, mode) /\ ZeroBatchOnly(i)
              /\ routine = "syr2k_strided_batched" =>
                     \E i \in CallIdx : NullSuccess(i, mode) /\ ZeroNAndBatch(i)
    /\ routine = "syr2k_strided_batched" => \A i \in CallIdx : ~ZeroBatchOnly(i)

\* The syr2k suite has finished both pointer modes.
C25_Witness ==
    /\ SuiteDone
    /\ routine = "syr2k_strided_batched"
    /\ \E i \in CallIdx : NullSuccess(i, DEVICE) /\ ZeroNAndBatch(i)
    /\ \E i \in CallIdx : NullSuccess(i, HOST) /\ ZeroNOnly(i)

\* ------------------------------------------------------------------------
\* Initialization stays inside the host buffers (SpecCases)
\* ------------------------------------------------------------------------
\* C26: in the strided-batched drivers, for every case past the quick-return
\* guard, every offset hipblas_init_matrix stores to in hA, hB and hC is
\* smaller than the size of that buffer (stride * batch_count).
C26_InitWithinBuffers ==
    (routine \in Strided /\ alloc # NoAlloc) =>
        \A k \in 1 .. Len(InitCalls(routine, arg)) :
            \A p \in InitOffsets(routine, arg, InitCalls(routine, arg)[k]) :
                p < alloc[InitCalls(routine, arg)[k].buf]

\* Without transposition (A is N x K, lda >= N) the stores stay inside, and hC always does.
InitWithinBuffersNoTrans ==
    (routine \in Strided /\ alloc # NoAlloc) =>
        \A k \in 1 .. Len(InitCalls(routine, arg)) :
            LET c == InitCalls(routine, arg)[k]
            IN  (arg.transA = "N" \/ c.buf = "hC_host" \/ arg.N <= InitLayout(routine, arg, c.buf).ld)
                   => \A p \in InitOffsets(routine, arg, c) : p < alloc[c.buf]

\* ------------------------------------------------------------------------
\* Scalar pointers and the handle's pointer mode (SpecBadArg)
\* ------------------------------------------------------------------------
ModeSpace(mode) == IF mode = HOST THEN "host" ELSE "device"

\* C27: at every invocation of a bad-argument suite each non-null scalar
\* pointer passed (alpha, beta, or zero / one in their place) is in the memory
\* the handle's pointer mode selects, and what it points at has been written.
C27_ScalarsInModeSpace ==
    \A i \in CallIdx :
        \A f \in ScalarPtrs(routine) :
            calls[i].args[f] # "nullptr" =>
                /\ MemSpace(calls[i].args[f]) = ModeSpace(calls[i].mode)
                /\ Deref(calls[i].args[f], ba.dmem) # Uninit

\* A device-mode invocation that passes zero and one for alpha and beta.
C27_Witness ==
    /\ pointer_mode = DEVICE
    /\ \E i \in CallIdx :
          /\ calls[i].mode = DEVICE
          /\ calls[i].args.alpha = "d_zero"
          /\ calls[i].args.beta = "d_one"
          /\ calls[i].alpha_val = 0
    /\ \E i \in CallIdx : calls[i].mode = HOST /\ calls[i].args.alpha = "&h_zero"

\* ------------------------------------------------------------------------
\* The values passed to the performance record (SpecRuns)
\* ------------------------------------------------------------------------
RecordAssigned ==
    /\ logged[1].start_taken
    /\ logged[1].hipblas_error_host # Uninit
    /\ logged[1].hipblas_error_device # Uninit

\* C28: whenever the performance record is emitted, the start timestamp was
\* taken inside the timing loop and both error values were produced by norm
\* checks, for all cold_iters, iters and flag combinations.
C28_RecordValuesAssigned ==
    logged # <<>> => RecordAssigned

\* The record's values are all assigned exactly when norm_check is on and iters >= 1.
RecordAssignedIffNormAndIters ==
    logged # <<>> => (RecordAssigned <=> (arg.norm_check /\ arg.iters >= 1))

\* ------------------------------------------------------------------------
\* Vector initializers and the increment
\* ------------------------------------------------------------------------
MaxVecN == 3

MaxVecInc == 2

VecInits == {"hipblas_init_template", "hipblas_init_vector", "hipblas_init_alternating_template"}

\* Addresses and size_t values are words of this many values; the buffers sit
\* at VecBase, in element units.
word_modulus == 256

VecBase == 64

\* `size_t i` times `int64_t inc`: inc is converted to the unsigned type.
size_t_times(i, inc) == (i * (inc % word_modulus)) % word_modulus

\* The subscript of batched_data[i * inc] / x[j * incx]: hipblas_init_template
\* counts with `size_t i`, the other two with `int64_t`.
Subscript(fn, i, inc) ==
    IF fn = "hipblas_init_template" THEN size_t_times(i, inc) ELSE i * inc

\* `if(inc < 0) batched_data -= (n - 1) * inc;`
adjusted(base, n, inc) == IF inc < 0 THEN base - (n - 1) * inc ELSE base

\* The buffer offset batched_data[i * inc] refers to.
StoreOffset(fn, n, inc, i) ==
    ((adjusted(VecBase, n, inc) + Subscript(fn, i, inc)) % word_modulus) - VecBase

\* The value iteration i stores, drawn at stream position k.
VecValue(fn, alt, i, k) ==
    IF fn = "hipblas_init_alternating_template"
    THEN Val(IF i % 2 = 1 THEN "rand_gen" ELSE "rand_gen_alt", k)
    ELSE IF fn = "hipblas_init_template" /\ alt
    THEN Val(IF i % 2 = 1 THEN "rand_gen" ELSE "hipblas_negate(rand_gen)", k)
    ELSE Val("rand_gen", k)

\* Entry: the two templates reseed when asked to.
VecEnter ==
    /\ fill.pc = "call"
    /\ rng' = IF fill.fn # "hipblas_init_vector" /\ fill.seedReset
              THEN hipblas_seedrand ELSE rng
    /\ fill' = [fill EXCEPT !.pc = "loop"]
    /\ UNCHANGED nonFillVars

\* One iteration of the element loop of batch entry b. The loop of
\* hipblas_init_vector is `#pragma omp parallel for`: built with OpenMP its
\* iterations draw in any order, otherwise (and in the templates) in index order.
VecStore ==
    /\ fill.pc = "loop"
    /\ fill.b < fill.batch_count
    /\ \E i \in (0 .. fill.n - 1) \ fill.ran :
          /\ fill.par \/ \A h \in 0 .. i - 1 : h \in fill.ran
          /\ LET at == StoreOffset(fill.fn, fill.n, fill.inc, i)
                 in == at \in DOMAIN fill.w[fill.b]
                 last == fill.ran \cup {i} = 0 .. fill.n - 1
             IN  fill' = [fill EXCEPT
                     !.x[fill.b] = IF in THEN [@ EXCEPT ![at] = VecValue(fill.fn, fill.alt, i, rng)]
                                   ELSE @,
                     !.w[fill.b] = IF in THEN [@ EXCEPT ![at] = @ + 1] ELSE @,
                     !.at[fill.b] = [@ EXCEPT ![i] = at],
                     !.oob = @ \/ ~in,
                     !.ran = IF last THEN {} ELSE @ \cup {i},
                     !.b = IF last THEN @ + 1 ELSE @]
    /\ rng' = rng + 1
    /\ UNCHANGED nonFillVars

VecReturn ==
    /\ fill.pc = "loop"
    /\ fill.b >= fill.batch_count
    /\ fill' = [fill EXCEPT !.pc = "done"]
    /\ UNCHANGED <<nonFillVars, rng>>

VecNext == VecEnter \/ VecStore \/ VecReturn

InitVec ==
    /\ routine = "hemv"
    /\ arg = BaseArg
    /\ pc = "idle"
    /\ calls = <<>>
    /\ trace = <<>>
    /\ alloc = NoAlloc
    /\ hbuf = [b \in HostBufs |-> NoData]
    /\ dbuf = [b \in DevBufs |-> NoData]
    /\ pointer_mode = HOST
    /\ rng = RngAtEntry
    /\ iter = 0
    /\ dispatches = 0
    /\ t_start = <<>>
    /\ t_end = <<>>
    /\ errs = [host |-> Uninit, device |-> Uninit]
    /\ failed = FALSE
    /\ logged = <<>>
    /\ ba = BaIdle
    /\ \E fn \in VecInits, n \in 1 .. MaxVecN, inc \in (-MaxVecInc .. MaxVecInc) \ {0},
          B \in 1 .. MaxFillBatch, sr \in BOOLEAN, alt \in BOOLEAN, par \in BOOLEAN :
          /\ fn = "hipblas_init_vector" => (B = 1 /\ ~sr)
          /\ fn # "hipblas_init_template" => ~alt
          /\ fn # "hipblas_init_vector" => ~par
          /\ fill = [pc |-> "call", fn |-> fn, n |-> n, inc |-> inc, batch_count |-> B,
                     seedReset |-> sr, alt |-> alt, par |-> par, b |-> 0, ran |-> {},
                     oob |-> FALSE,
                     x |-> [b \in 0 .. B - 1 |-> [p \in 0 .. n * Abs(inc) - 1 |-> Unwritten]],
                     w |-> [b \in 0 .. B - 1 |-> [p \in 0 .. n * Abs(inc) - 1 |-> 0]],
                     at |-> [b \in 0 .. B - 1 |-> [i \in 0 .. n - 1 |-> -1]]]

SpecVec == InitVec /\ [][VecNext]_vars

\* The stream position of the first draw of batch entry b.
FirstDraw(b) == (IF fill.seedReset THEN hipblas_seedrand ELSE RngAtEntry) + b * fill.n

\* Exactly the offsets 0, |inc|, ..., (n-1)|inc| of every batch entry are written,
\* each once, and no other offset inside or outside the buffer.
VecOffsetsExact ==
    fill.pc = "done" =>
        /\ ~fill.oob
        /\ \A b \in 0 .. fill.batch_count - 1 : \A p \in DOMAIN fill.w[b] :
               /\ fill.w[b][p] = (IF \E k \in 0 .. fill.n - 1 : p = k * Abs(fill.inc)
                                  THEN 1 ELSE 0)
               /\ fill.w[b][p] = 0 => fill.x[b][p] = Unwritten

\* The i-th value generated for a batch entry lands at offset (n-1-i)|inc|
\* under a negative increment (and at i|inc| under a positive one).
VecGeneratedOrder ==
    fill.pc = "done" =>
        \A b \in 0 .. fill.batch_count - 1 : \A i \in 0 .. fill.n - 1 :
            fill.x[b][(IF fill.inc < 0 THEN fill.n - 1 - i ELSE i) * Abs(fill.inc)].k
                = FirstDraw(b) + i

\* C29: for n elements and any nonzero increment the three initializers write
\* exactly the offsets 0, |inc|, ..., (n-1)|inc| of each batch entry, each
\* once, and nothing else; with a negative increment the i-th generated value
\* lands at offset (n-1-i)|inc|.
C29_VectorOffsets ==
    VecOffsetsExact /\ VecGeneratedOrder

\* Where the loop draws in index order the generated order holds as well.
VecGeneratedOrderSequential ==
    ~fill.par => VecGeneratedOrder

\* Loop iteration i stores at offset (n-1-i)|inc| under a negative increment,
\* also where `size_t i` multiplies the negative inc.
VecIterationOffsets ==
    \A b \in 0 .. fill.batch_count - 1 : \A i \in 0 .. fill.n - 1 :
        fill.at[b][i] # -1 =>
            fill.at[b][i] = (IF fill.inc < 0 THEN fill.n - 1 - i ELSE i) * Abs(fill.inc)

\* ------------------------------------------------------------------------
\* banded_matrix_setup on a matrix with leading dimension lda
\* ------------------------------------------------------------------------
MaxSetupPad == 1

\* The element (i, j) of a column-major matrix with leading dimension lda.
ElementAt(i, j, lda) == j * lda + i

\* The subscript the routine stores to for (i, j): `A[j * n + i]`.
setup_index(i, j, n, lda) == j * n + i

\* The condition under which the routine stores T(0.0) for (i, j).
setup_zeroes(upper, i, j, k) ==
    IF upper THEN (j > k + i \/ i > j) ELSE (i > k + j \/ j > i)

\* One iteration of the inner loop over j, for row i.
BandSetupStep ==
    /\ fill.pc = "loop"
    /\ fill.i < fill.n
    /\ LET at == setup_index(fill.i, fill.j, fill.n, fill.lda)
           last == fill.j + 1 = fill.n
       IN  fill' = [fill EXCEPT
               !.A = IF setup_zeroes(fill.upper, fill.i, fill.j, fill.k)
                     THEN [@ EXCEPT ![at] = TZero] ELSE @,
               !.j = IF last THEN 0 ELSE @ + 1,
               !.i = IF last THEN @ + 1 ELSE @]
    /\ UNCHANGED <<nonFillVars, rng>>

BandSetupReturn ==
    /\ fill.pc = "loop"
    /\ fill.i >= fill.n
    /\ fill' = [fill EXCEPT !.pc = "done"]
    /\ UNCHANGED <<nonFillVars, rng>>

BandSetupNext == BandSetupStep \/ BandSetupReturn

InitBandSetup ==
    /\ routine = "hemv"
    /\ arg = BaseArg
    /\ pc = "idle"
    /\ calls = <<>>
    /\ trace = <<>>
    /\ alloc = NoAlloc
    /\ hbuf = [b \in HostBufs |-> NoData]
    /\ dbuf = [b \in DevBufs |-> NoData]
    /\ pointer_mode = HOST
    /\ rng = RngAtEntry
    /\ iter = 0
    /\ dispatches = 0
    /\ t_start = <<>>
    /\ t_end = <<>>
    /\ errs = [host |-> Uninit, device |-> Uninit]
    /\ failed = FALSE
    /\ logged = <<>>
    /\ ba = BaIdle
    /\ \E upper \in BOOLEAN, n \in 1 .. MaxBandN, pad \in 0 .. MaxSetupPad, k \in 0 .. MaxBandK :
          fill = [pc |-> "loop", upper |-> upper, n |-> n, lda |-> n + pad, k |-> k,
                  i |-> 0, j |-> 0,
                  A |-> [p \in 0 .. (n + pad) * n - 1 |-> Val("rand_gen", p)]]

SpecBandSetup == InitBandSetup /\ [][BandSetupNext]_vars

\* Element (i, j) lies outside the band of k super- (upper) or sub- (lower) diagonals.
OutOfBand(upper, i, j, k) ==
    IF upper THEN (j > i + k \/ i > j) ELSE (i > j + k \/ j > i)

\* After the call, the storage holds zero exactly at the out-of-band elements
\* of a matrix of leading dimension ld, and its initial value everywhere else.
ZeroedExactlyOutOfBand(ld) ==
    \A p \in DOMAIN fill.A :
        fill.A[p] = (IF \E i, j \in 0 .. fill.n - 1 :
                           p = ElementAt(i, j, ld) /\ OutOfBand(fill.upper, i, j, fill.k)
                     THEN TZero ELSE Val("rand_gen", p))

\* C30: banded_matrix_setup(upper, A, lda, n, k) zeroes exactly the out-of-band
\* elements of the n x n matrix stored with leading dimension lda, and leaves
\* the in-band elements and the padding unchanged, for every lda >= n.
C30_BandSetupZeroesOutOfBand ==
    fill.pc = "done" => ZeroedExactlyOutOfBand(fill.lda)

\* The routine addresses the matrix with leading dimension n, whatever lda is.
BandSetupUsesN ==
    fill.pc = "done" => ZeroedExactlyOutOfBand(fill.n)

\* With lda = n the claimed elements, and only they, are zeroed.
BandSetupPackedColumns ==
    (fill.pc = "done" /\ fill.lda = fill.n) => ZeroedExactlyOutOfBand(fill.lda)

====
